---- MODULE Spec2Model ----
(***************************************************************************)
(* Model of the EcayTrade duplicate / MLS-match filter of the scraper      *)
(* scripts: duplicate_detector.py, ecaytrade_mls_filter.py, the shared     *)
(* helpers of utilities/supabase_utils.py, the part of ecaytrade.py main() *)
(* that calls them, and the convert_ci_to_usd of cireba.py and             *)
(* century21.py.                                                           *)
(*                                                                         *)
(* Representation.  A Python str is a sequence of one-character strings.   *)
(* A Python float holding a money amount is an integer number of mills     *)
(* (1/1000 of a currency unit); every amount of the model has at most      *)
(* three decimals and is below 2^31 mills.  ValueError (-1) is the outcome *)
(* of a float() call that raises.                                          *)
(***************************************************************************)
EXTENDS Integers, Sequences, FiniteSets, TLC

\* ------------------------------------------------------------------ bounds
MaxBatch == 2
MaxPages == 2
MaxSmallAmount == 24

\* --------------------------------------------------------------- constants
page_size == 1000
ThresholdUSD == 200000
ToleranceUSD == 100
MatchThreshold == 85
\* 1.2195121951219512195121951219512 is the double nearest to 50/41
RateNum == 50
RateDen == 41

\* representation: mills per currency unit, and the raised-exception marker
Mills == 10 * 100

ValueError == 0 - 1

\* ------------------------------------------------------------ str helpers
Digits == <<"0", "1", "2", "3", "4", "5", "6", "7", "8", "9">>

IsDigit(c) == \E i \in 1..10 : Digits[i] = c

DigitVal(c) == (CHOOSE i \in 1..10 : Digits[i] = c) - 1

UpperCase ==
    <<"A", "B", "C", "D", "E", "F", "G", "H", "I", "J", "K", "L", "M",
      "N", "O", "P", "Q", "R", "S", "T", "U", "V", "W", "X", "Y", "Z">>

LowerCase ==
    <<"a", "b", "c", "d", "e", "f", "g", "h", "i", "j", "k", "l", "m",
      "n", "o", "p", "q", "r", "s", "t", "u", "v", "w", "x", "y", "z">>

\* str.lower(), character by character
LowerChar(c) ==
    IF \E i \in 1..Len(UpperCase) : UpperCase[i] = c
    THEN LowerCase[CHOOSE i \in 1..Len(UpperCase) : UpperCase[i] = c]
    ELSE c

Lower(s) == [i \in 1..Len(s) |-> LowerChar(s[i])]

\* str.strip(): drop leading and trailing blanks
RECURSIVE LStrip(_)
LStrip(s) == IF s # <<>> /\ Head(s) = " " THEN LStrip(Tail(s)) ELSE s

RECURSIVE RStrip(_)
RStrip(s) ==
    IF s # <<>> /\ s[Len(s)] = " " THEN RStrip(SubSeq(s, 1, Len(s) - 1)) ELSE s

Strip(s) == RStrip(LStrip(s))

\* price_str.replace(",", "")
IsNotComma(c) == c # ","

RemoveCommas(s) == SelectSeq(s, IsNotComma)

RECURSIVE DigitsToNat(_)
DigitsToNat(s) ==
    IF s = <<>> THEN 0
    ELSE DigitsToNat(SubSeq(s, 1, Len(s) - 1)) * 10 + DigitVal(s[Len(s)])

RECURSIVE NatToDigits(_)
NatToDigits(n) ==
    IF n < 10 THEN <<Digits[n + 1]>>
    ELSE NatToDigits(n \div 10) \o <<Digits[(n % 10) + 1]>>

\* float(s) for the strings of the model: digits with at most one "." and at
\* most three decimals give the amount in mills; anything else (letters, a
\* comma left in place, the empty string) raises ValueError.
ParseFloat(s) ==
    LET dots == {i \in 1..Len(s) : s[i] = "."}
        wellFormed ==
            /\ \A i \in 1..Len(s) : IsDigit(s[i]) \/ s[i] = "."
            /\ Cardinality(dots) <= 1
            /\ \E i \in 1..Len(s) : IsDigit(s[i])
        dot == IF dots = {} THEN Len(s) + 1 ELSE CHOOSE i \in dots : TRUE
        ip == SubSeq(s, 1, dot - 1)
        fp == SubSeq(s, dot + 1, Len(s))
        fp3 == SubSeq(fp \o <<"0", "0", "0">>, 1, 3)
    IN  IF wellFormed /\ Len(fp) <= 3
        THEN DigitsToNat(ip) * Mills + DigitsToNat(fp3)
        ELSE ValueError

\* str(x) of a float x >= 0 given in mills: shortest decimal form, at least
\* one decimal ("200000.0", "243902.44")
FormatFloat(m) ==
    LET f == m % Mills
        fd == <<Digits[(f \div 100) + 1], Digits[((f \div 10) % 10) + 1],
                Digits[(f % 10) + 1]>>
        keep == IF f % 10 # 0 THEN 3 ELSE IF f % 100 # 0 THEN 2 ELSE 1
    IN  NatToDigits(m \div Mills) \o <<".">> \o SubSeq(fd, 1, keep)

\* bool(s) of a str
Truthy(s) == s # <<>>

\* ------------------------------------------------- normalize_listing_type
\* keyword in raw_type: the keyword occurs as a substring
Contains(s, kw) ==
    \E i \in 0..(Len(s) - Len(kw)) : SubSeq(s, i + 1, i + Len(kw)) = kw

\* the keywords normalize_listing_type looks for
KwLand == <<"l", "a", "n", "d">>

KwLot == <<"l", "o", "t">>

KwVacant == <<"v", "a", "c", "a", "n", "t">>

KwCommercial == <<"c", "o", "m", "m", "e", "r", "c", "i", "a", "l">>

KwMultiUnit == <<"m", "u", "l", "t", "i", " ", "u", "n", "i", "t">>

KwMultiUnitHyphen == <<"m", "u", "l", "t", "i", "-", "u", "n", "i", "t">>

KwDuplex == <<"d", "u", "p", "l", "e", "x">>

KwTriplex == <<"t", "r", "i", "p", "l", "e", "x">>

KwTownhouse == <<"t", "o", "w", "n", "h", "o", "u", "s", "e">>

KwCondo == <<"c", "o", "n", "d", "o">>

KwCondominium == <<"c", "o", "n", "d", "o", "m", "i", "n", "i", "u", "m">>

KwUnit == <<"u", "n", "i", "t">>

KwApartment == <<"a", "p", "a", "r", "t", "m", "e", "n", "t">>

\* the values normalize_listing_type returns
TypeHome == <<"H", "o", "m", "e">>

TypeLand == <<"L", "a", "n", "d">>

TypeCommercial == <<"C", "o", "m", "m", "e", "r", "c", "i", "a", "l">>

TypeMultiUnit == <<"M", "u", "l", "t", "i", " ", "U", "n", "i", "t">>

TypeDuplex == <<"D", "u", "p", "l", "e", "x">>

TypeTriplex == <<"T", "r", "i", "p", "l", "e", "x">>

TypeTownhouse == <<"T", "o", "w", "n", "h", "o", "u", "s", "e">>

TypeCondo == <<"C", "o", "n", "d", "o">>

TypeApartment == <<"A", "p", "a", "r", "t", "m", "e", "n", "t">>

normalize_listing_type_condo_first(raw_type) ==
    LET t == Strip(Lower(raw_type))
    IN  IF ~Truthy(raw_type) THEN TypeHome
        ELSE IF Contains(t, KwLand) \/ Contains(t, KwLot) \/ Contains(t, KwVacant)
        THEN TypeLand
        ELSE IF Contains(t, KwCommercial) THEN TypeCommercial
        ELSE IF Contains(t, KwMultiUnit) \/ Contains(t, KwMultiUnitHyphen)
        THEN TypeMultiUnit
        ELSE IF Contains(t, KwCondo) \/ Contains(t, KwCondominium) \/ Contains(t, KwUnit)
        THEN TypeCondo
        ELSE IF Contains(t, KwDuplex) THEN TypeDuplex
        ELSE IF Contains(t, KwTriplex) THEN TypeTriplex
        ELSE IF Contains(t, KwTownhouse) THEN TypeTownhouse
        ELSE IF Contains(t, KwApartment) THEN TypeApartment
        ELSE TypeHome

\* normalize_listing_type(raw_type); None and "" are both <<>>
normalize_listing_type(raw_type) ==
    LET t == Strip(Lower(raw_type))
    IN  IF ~Truthy(raw_type) THEN TypeHome
        ELSE IF Contains(t, KwLand) \/ Contains(t, KwLot) \/ Contains(t, KwVacant)
        THEN TypeLand
        ELSE IF Contains(t, KwCommercial) THEN TypeCommercial
        ELSE IF Contains(t, KwMultiUnit) \/ Contains(t, KwMultiUnitHyphen)
        THEN TypeMultiUnit
        ELSE IF Contains(t, KwDuplex) THEN TypeDuplex
        ELSE IF Contains(t, KwTriplex) THEN TypeTriplex
        ELSE IF Contains(t, KwTownhouse) THEN TypeTownhouse
        ELSE IF Contains(t, KwCondo) \/ Contains(t, KwCondominium) \/ Contains(t, KwUnit)
        THEN TypeCondo
        ELSE IF Contains(t, KwApartment) THEN TypeApartment
        ELSE TypeHome

\* ----------------------------------------------------------- field values
\* The value of a dict field that the preparers coerce: None, an int, a
\* float (in mills) or a str; "raise" is an exception leaving the coercion.
PyNone == [t |-> "none"]

PyInt(n) == [t |-> "int", v |-> n]

PyFloat(m) == [t |-> "float", v |-> m]

PyStr(s) == [t |-> "str", v |-> s]

PyRaise(e) == [t |-> "raise", v |-> e]

\* the truth value of "if listing.get(field):"
PyTruthy(x) ==
    IF x.t = "none" THEN FALSE
    ELSE IF x.t = "str" THEN x.v # <<>>
    ELSE x.v # 0

\* result.get(key): None when the key is absent
Get(result, key) == IF key \in DOMAIN result THEN result[key] ELSE PyNone

\* result.get(key) of a field that holds a str; None and "" are both <<>>
GetStr(result, key) == IF key \in DOMAIN result THEN result[key] ELSE <<>>

StrInf == <<"i", "n", "f">>

AllDigits(s) == s # <<>> /\ \A i \in 1..Len(s) : IsDigit(s[i])

\* sqft: int(x.replace(',', '')) if isinstance(x, str) else int(x), None when
\* the field is falsy or ValueError / TypeError is caught
CoerceSqft(x) ==
    IF ~PyTruthy(x) THEN PyNone
    ELSE IF x.t = "str"
    THEN IF AllDigits(RemoveCommas(x.v)) THEN PyInt(DigitsToNat(RemoveCommas(x.v)))
         ELSE PyNone
    ELSE IF x.t = "int" THEN x
    ELSE PyInt(x.v \div Mills)

\* beds, baths: int(float(x)) if isinstance(x, str) else int(x), None when the
\* field is falsy or ValueError / TypeError is caught.  float("inf") is a
\* float and int() of it raises OverflowError, which is not caught.
CoerceBeds(x) ==
    IF ~PyTruthy(x) THEN PyNone
    ELSE IF x.t = "str"
    THEN IF x.v = StrInf THEN PyRaise("OverflowError")
         ELSE IF ParseFloat(x.v) = ValueError THEN PyNone
         ELSE PyInt(ParseFloat(x.v) \div Mills)
    ELSE IF x.t = "int" THEN x
    ELSE PyInt(x.v \div Mills)

BedsRaises(x) == CoerceBeds(x).t = "raise"

\* price (prepare_listing_row): float(x.replace(',', '')) if isinstance(x, str)
\* else float(x)
CoercePrice(x) ==
    IF ~PyTruthy(x) THEN PyNone
    ELSE IF x.t = "str"
    THEN IF ParseFloat(RemoveCommas(x.v)) = ValueError THEN PyNone
         ELSE PyFloat(ParseFloat(RemoveCommas(x.v)))
    ELSE IF x.t = "int" THEN PyFloat(x.v * Mills)
    ELSE x

\* acres: float(x)
CoerceAcres(x) ==
    IF ~PyTruthy(x) THEN PyNone
    ELSE IF x.t = "str"
    THEN IF ParseFloat(x.v) = ValueError THEN PyNone ELSE PyFloat(ParseFloat(x.v))
    ELSE IF x.t = "int" THEN PyFloat(x.v * Mills)
    ELSE x

\* ------------------------------------------------------ currency conversion
\* round(q, 0) of the rational q = n/d (n >= 0, d > 0), ties to even as
\* Python's round
RoundDiv(n, d) ==
    LET q == n \div d
        r == n % d
    IN  IF 2 * r > d \/ (2 * r = d /\ q % 2 = 1) THEN q + 1 ELSE q

\* round(x, 2) of an amount x in mills: the result is a whole number of cents
Round2(m) == RoundDiv(m, 10) * 10

\* round(ci_amount * ci_to_usd_rate, 2), in mills.  The product in cents is
\* ci * RateNum / (10 * RateDen); it is split so that no intermediate value
\* leaves 32 bits.
MulRateRound2_trunc(ci) ==
    LET den == 10 * RateDen
    IN  ((ci \div den) * RateNum + ((ci % den) * RateNum) \div den) * 10

MulRateRound2(ci) ==
    LET den == 10 * RateDen
        q == ci \div den
        r == ci % den
    IN  (q * RateNum + RoundDiv(r * RateNum, den)) * 10

\* DuplicateDetector.convert_ci_to_usd: the pair (currency, amount), or
\* the exception that leaves the method
Conv(cur, usd) == [raised |-> FALSE, currency |-> cur, usd |-> usd]

ConvRaise == [raised |-> TRUE, currency |-> "", usd |-> 0]

convert_ci_to_usd(price_str, currency) ==
    LET a == ParseFloat(RemoveCommas(price_str))
    IN  IF currency = "CI$" /\ Truthy(price_str)
        THEN IF a # ValueError
             THEN Conv("US$", MulRateRound2(a))
             \* the except branch evaluates the same float() again
             ELSE ConvRaise
        ELSE IF currency = "US$"
        THEN IF ~Truthy(price_str) THEN Conv(currency, 0)
             ELSE IF a # ValueError THEN Conv(currency, a)
             ELSE Conv(currency, 0)
        ELSE Conv(currency, 0)

\* ecaytrade.convert_ci_to_usd: the pair (currency, price string)
ecaytrade_convert_ci_to_usd(price_str, currency) ==
    LET a == ParseFloat(RemoveCommas(price_str))
    IN  IF currency = "CI$" /\ Truthy(price_str) /\ a # ValueError
        THEN <<"US$", FormatFloat(MulRateRound2(a))>>
        ELSE <<currency, price_str>>

\* cireba.convert_ci_to_usd: the pair (currency, price string)
cireba_convert_ci_to_usd(price_str, currency) ==
    LET a == ParseFloat(RemoveCommas(price_str))
    IN  IF currency = "CI$" /\ Truthy(price_str) /\ a # ValueError
        THEN <<"US$", FormatFloat(MulRateRound2(a))>>
        ELSE <<currency, price_str>>

\* century21.convert_ci_to_usd: the pair (currency, price string)
century21_convert_ci_to_usd(price_str, currency) ==
    LET a == ParseFloat(RemoveCommas(price_str))
    IN  IF currency = "CI$" /\ Truthy(price_str) /\ a # ValueError
        THEN <<"US$", FormatFloat(MulRateRound2(a))>>
        ELSE <<currency, price_str>>

\* ------------------------------------------------------------ match engine
Max(a, b) == IF a >= b THEN a ELSE b

Abs(x) == IF x < 0 THEN -x ELSE x

\* One row of the longest-common-subsequence table: acc holds columns
\* 0..Len(acc)-1 of the row of character c, prev is the row above.
RECURSIVE LcsRow(_, _, _, _)
LcsRow(prev, c, b, acc) ==
    IF Len(acc) > Len(b) THEN acc
    ELSE LET j == Len(acc)
             v == IF c = b[j] THEN prev[j] + 1 ELSE Max(prev[j + 1], acc[j])
         IN  LcsRow(prev, c, b, Append(acc, v))

RECURSIVE LcsRows(_, _, _)
LcsRows(a, b, prev) ==
    IF a = <<>> THEN prev[Len(b) + 1]
    ELSE LcsRows(Tail(a), b, LcsRow(prev, Head(a), b, <<0>>))

LcsLen(a, b) == LcsRows(a, b, [j \in 1..(Len(b) + 1) |-> 0])

\* fuzz.ratio: 0 for an empty argument, else int(round(100 * 2*M / T)) with M
\* the matched characters (insert/delete alignment) and T the total length
fuzz_ratio(s1, s2) ==
    IF Len(s1) = 0 \/ Len(s2) = 0 THEN 0
    ELSE RoundDiv(100 * 2 * LcsLen(s1, s2), Len(s1) + Len(s2))

fuzzy_name_match(name1, name2) ==
    IF ~Truthy(name1) \/ ~Truthy(name2) THEN 0
    ELSE fuzz_ratio(Strip(Lower(name1)), Strip(Lower(name2)))

exact_price_match_strict(price1_usd, price2_usd) ==
    Abs(price1_usd - price2_usd) < ToleranceUSD * Mills

exact_price_match(price1_usd, price2_usd) ==
    Abs(price1_usd - price2_usd) <= ToleranceUSD * Mills

\* both gates of the loop body of check_duplicate / check_mls_match
ClearsGates(new_price_usd, new_name, existing) ==
    /\ exact_price_match(new_price_usd, existing.price_usd)
    /\ fuzzy_name_match(new_name, existing.name) >= MatchThreshold

NoMatch == [found |-> FALSE, existing_listing |-> 0, similarity_score |-> 0]

check_duplicate_best(new_price_usd, new_name, cache) ==
    LET hits == {i \in 1..Len(cache) : ClearsGates(new_price_usd, new_name, cache[i])}
        score(i) == fuzzy_name_match(new_name, cache[i].name)
    IN  IF hits = {} THEN NoMatch
        ELSE LET i == CHOOSE k \in hits :
                          \A h \in hits : score(k) > score(h) \/ (score(k) = score(h) /\ k <= h)
             IN  [found |-> TRUE, existing_listing |-> i, similarity_score |-> score(i)]

\* check_duplicate / check_mls_match: the first cache entry, in cache order,
\* that clears both gates, or None
check_duplicate(new_price_usd, new_name, cache) ==
    LET hits == {i \in 1..Len(cache) : ClearsGates(new_price_usd, new_name, cache[i])}
    IN  IF hits = {} THEN NoMatch
        ELSE LET i == CHOOSE k \in hits : \A h \in hits : k <= h
             IN  [found |-> TRUE, existing_listing |-> i,
                  similarity_score |-> fuzzy_name_match(new_name, cache[i].name)]

\* ------------------------------------------------------------------- urls
UrlProperties == "https://ecaytrade.com/real-estate/for-sale?type=apartments"

UrlLand == "https://ecaytrade.com/real-estate/for-sale?type=lots--lands"

UrlCireba == "https://www.cireba.com/cayman-residential-property-for-sale"

extract_source_from_url(url) ==
    IF url = UrlCireba THEN "cireba"
    ELSE IF url \in {UrlProperties, UrlLand} THEN "ecaytrade"
    ELSE "unknown"

\* item.get("link") as a set element: the link, or None when the key is absent
LinkKey(item) ==
    IF "link" \in DOMAIN item THEN [t |-> "str", v |-> item.link]
    ELSE [t |-> "none", v |-> ""]

\* deduplicate_listings: the first occurrence of every link, in order
RECURSIVE DedupFrom(_, _, _)
DedupFrom(listings, seen, unique) ==
    IF listings = <<>> THEN unique
    ELSE LET item == Head(listings)
         IN  IF LinkKey(item) \in seen
             THEN DedupFrom(Tail(listings), seen, unique)
             ELSE DedupFrom(Tail(listings), seen \cup {LinkKey(item)}, Append(unique, item))

deduplicate_listings_last(listings) ==
    LET backwards == [i \in 1..Len(listings) |-> listings[Len(listings) + 1 - i]]
        unique == DedupFrom(backwards, {}, <<>>)
    IN  [i \in 1..Len(unique) |-> unique[Len(unique) + 1 - i]]

deduplicate_listings(listings) == DedupFrom(listings, {}, <<>>)

\* dedupe_listings_by_url: url = listing.get('link', ''), kept when the url
\* is truthy and was not seen before
RECURSIVE DedupeByUrlFrom(_, _, _)
DedupeByUrlFrom(listings, seen_urls, deduplicated_listings) ==
    IF listings = <<>> THEN deduplicated_listings
    ELSE LET listing == Head(listings)
             url == IF "link" \in DOMAIN listing THEN listing.link ELSE ""
         IN  IF url # "" /\ url \notin seen_urls
             THEN DedupeByUrlFrom(Tail(listings), seen_urls \cup {url},
                                  Append(deduplicated_listings, listing))
             ELSE DedupeByUrlFrom(Tail(listings), seen_urls, deduplicated_listings)

dedupe_listings_by_url(listings) == DedupeByUrlFrom(listings, {}, <<>>)

\* ------------------------------------------------------------------ inputs
NameVilla9 == <<"V", "i", "l", "l", "a", " ", "9">>

NameVilla9Pad == <<" ", "V", "I", "L", "L", "A", " ", "9", " ">>

NameVilla8 == <<"v", "i", "l", "l", "a", " ", "8">>

NameVilla == <<"v", "i", "l", "l", "a">>

NameCondo9 == <<"c", "o", "n", "d", "o", " ", "9">>

\* A parsed listing.  An optional field that is absent holds <<>>, which the
\* code treats as it treats "" (both are falsy and normalize to Home); the
\* pass-through fields location and image_link are left out.
Listing(name, price, currency, link, beds) ==
    [name |-> name, price |-> price, currency |-> currency, link |-> link,
     beds |-> beds, listing_type |-> <<>>, sqft |-> <<>>, baths |-> <<>>,
     acres |-> <<>>, mls_number |-> <<>>]

WithDetails(l, listing_type, sqft, baths, acres, mls_number) ==
    [l EXCEPT !.listing_type = listing_type, !.sqft = sqft, !.baths = baths,
              !.acres = acres, !.mls_number = mls_number]

TypeLandDuplex == <<"L", "a", "n", "d", " ", "/", " ", "D", "u", "p", "l", "e", "x">>

\* The parsed listings a run can be given.
ListingPool ==
    { WithDetails(Listing(NameVilla9Pad, <<"3", "3", "0", ",", "0", "5", "0">>, "US$", "advert/1", <<"3">>),
                  TypeCondo, <<"1", ",", "2", "0", "0">>, <<"2", ".", "5">>, <<>>, <<>>),
      WithDetails(Listing(NameVilla8, <<"3", "3", "0", ",", "1", "0", "0">>, "US$", "advert/2", <<>>),
                  TypeLandDuplex, <<>>, <<>>, <<"0", ".", "5">>, <<"4", "1", "9", "6", "0", "9">>),
      WithDetails(Listing(NameVilla9, <<"3", "3", "0", "1", "0", "0", ".", "0", "1">>, "US$", "advert/3", <<"3">>),
                  <<>>, <<"1", "2", "0", "0", ".", "5">>, <<"t", "w", "o">>, <<"n", "/", "a">>, <<>>),
      Listing(NameVilla, <<"3", "3", "0", "0", "0", "0">>, "US$", "advert/4", <<>>),
      WithDetails(Listing(NameCondo9, <<"2", "0", "0", ",", "0", "0", "0", ".", "0", "0">>, "US$", "advert/5", <<"3">>),
                  TypeApartment, <<"9", "5", "0">>, <<"2">>, <<>>, <<>>),
      Listing(NameVilla9, <<"1", "9", "9", ",", "9", "9", "9", ".", "9", "9">>, "US$", "advert/6", <<>>),
      Listing(NameVilla9, <<"P", "O", "A">>, "CI$", "advert/7", <<>>),
      Listing(NameCondo9, <<"1", "6", "4", ",", "0", "0", "0">>, "CI$", "advert/8", <<>>),
      Listing(NameVilla, <<"3", "3", "0", "0", "0", "0">>, "US$", "advert/1", <<>>),
      Listing(<<>>, <<"4", "5", "0", "0", "0", "0">>, "US$", "advert/10", StrInf),
      Listing(NameVilla9, <<"P", "O", "A">>, "US$", "advert/11", <<>>) }

\* a row of the reference table; number is the column get_existing_mls_numbers
\* selects from mls_listings (0: empty)
RefRow(id, name, price, currency, link) ==
    [id |-> id, name |-> name, price |-> price, currency |-> currency,
     link |-> link, target_url |-> UrlCireba, number |-> id]

RefA == RefRow(1, NameVilla9, 330000 * Mills, "US$", "cireba/419608")

RefB == RefRow(2, NameVilla8, 330150 * Mills, "US$", "cireba/419609")

\* The reference tables of a run (the rows of the table, in the order the
\* store returns them)
TablePool == {<<>>, <<RefA>>, <<RefB, RefA>>}

RECURSIVE SeqsUpTo(_, _)
SeqsUpTo(S, n) ==
    IF n = 0 THEN {<<>>}
    ELSE LET shorter == SeqsUpTo(S, n - 1)
         IN  shorter \cup {Append(q, x) : q \in shorter, x \in S}

\* the listings of two categories, at most MaxBatch listings in all
BatchesOf(pool) ==
    UNION {{<<first, second>> : second \in SeqsUpTo(pool, MaxBatch - Len(first))} :
              first \in SeqsUpTo(pool, MaxBatch)}

\* ------------------------------------------------------------------- state
VARIABLES
    variant,          \* "dd": duplicate_detector.py, "mls": ecaytrade_mls_filter.py
    raw,              \* main: the parsed listings of each category
    table,            \* the reference table in the store
    pc,               \* position of the run
    parsed,           \* parsed_listings_by_url, flattened in iteration order
    offset,           \* loader: offset of the next page
    all_listings,     \* loader: rows accumulated so far
    reads,            \* loader: the offsets requested, in order
    cache,            \* existing_listings_cache / mls_listings
    all_mls_numbers,  \* get_existing_mls_numbers: the set accumulated
    loaded,           \* the loader's result: "pending", "ok", "failed"
    idx,              \* number of candidates given to process_listing
    new_listings,     \* new_listings / filtered_listings
    duplicates_found, \* duplicates_found / mls_matches_found
    skipped,          \* candidates dropped by the price threshold
    webhook,          \* outcome of send_batch_webhook's POST
    delivered,        \* the duplicate report the webhook accepted
    prepared,         \* the rows get_new_listings_for_save returned
    success,          \* first component of the filter's result
    store_calls,      \* insert requests sent for ecaytrade_listings
    inserted,         \* rows stored in ecaytrade_listings
    error,            \* the exception main's except clause caught, or ""
    conv_arg,         \* conversion: the (price string, currency) argument
    conv_res,         \* conversion: the result of the DuplicateDetector
    conv_mod,         \* conversion: the results of the module-level functions
    norm_arg,         \* normalization: the raw listing
    norm_res,         \* normalization: the outcome of each pass
    save_args,        \* save_to_listings_table: target_url and results
    saved,            \* save_to_listings_table: the tables it was called for
    cireba_rows,      \* rows stored in cireba_listings
    launcher,         \* run_all: the launcher script that is running
    child,            \* run_all: the script whose subprocess is running, or ""
    run_results,      \* run_all: main's results list
    events,           \* run_all: what happened to the scripts, in order
    exit_code,        \* run_all: the argument of sys.exit, "" before it
    old_rows,         \* cleanup: ids of the rows older than the cutoff
    recent_rows,      \* cleanup: ids of the rows at or after the cutoff
    removed,          \* cleanup: ids of the rows the store deleted
    ids_to_delete,    \* cleanup: the batch selected for deletion
    total_deleted,    \* cleanup: total_deleted
    clean_pc,         \* cleanup: position in cleanup_old_listings
    clean_ret,        \* cleanup: the tuple returned, <<>> before the return
    site,             \* crawl: the scraper whose crawl_category_pages runs
    page_number,      \* crawl: page_number
    pages_crawled,    \* crawl: pages_crawled
    crawl_result,     \* crawl: the result of the last crawler.arun
    requested,        \* crawl: the page numbers requested, in order
    saved_files,      \* crawl: the raw results saved, in order
    crawl_pc,         \* crawl: position in crawl_category_pages
    crawl_ret,        \* crawl: the value returned, <<>> before the return
    dedupe_arg,       \* de-duplication: the input list
    dedupe_res,       \* de-duplication: the outputs, by function
    filter_arg,       \* filter_new_listings: listings and existing set
    filter_res,       \* filter_new_listings: the result, <<>> before the call
    categories,       \* cireba: the parsed listings of each category
    category,         \* cireba: index of the category main processes next
    existing_mls_numbers, \* cireba: the set main filters with
    all_new_mls_numbers,  \* cireba: all_new_mls_numbers
    save_results,     \* cireba: what each save_to_supabase call returned
    tracked           \* cireba: numbers stored in mls_listings by this run

inVars == <<variant, raw, table>>

loadVars == <<offset, all_listings, reads, cache, all_mls_numbers, loaded>>

partVars == <<idx, new_listings, duplicates_found, skipped>>

hookVars == <<webhook, delivered>>

storeVars == <<store_calls, inserted>>

ctlVars == <<pc, success, prepared, error>>

convVars == <<conv_arg, conv_res, conv_mod>>

normVars == <<norm_arg, norm_res>>

saveVars == <<save_args, saved, cireba_rows>>

runVars == <<launcher, child, run_results, events, exit_code>>

cleanVars == <<old_rows, recent_rows, removed, ids_to_delete, total_deleted,
               clean_pc, clean_ret>>

crawlVars == <<site, page_number, pages_crawled, crawl_result, requested,
               saved_files, crawl_pc, crawl_ret>>

dedupeVars == <<dedupe_arg, dedupe_res>>

filterVars == <<filter_arg, filter_res>>

cirebaVars == <<categories, category, existing_mls_numbers, all_new_mls_numbers,
                save_results, tracked>>

\* the variables of the maintenance scripts and of the CIREBA run
opsVars == <<runVars, cleanVars, crawlVars, dedupeVars, filterVars, cirebaVars>>

\* the variables of the functions exercised on their own
unitVars == <<convVars, normVars, saveVars, opsVars>>

vars == <<inVars, parsed, loadVars, partVars, hookVars, storeVars, ctlVars, unitVars>>

Categories == <<UrlProperties, UrlLand>>

InitCommon ==
    /\ parsed = <<>>
    /\ offset = 0
    /\ all_listings = <<>>
    /\ reads = <<>>
    /\ cache = <<>>
    /\ all_mls_numbers = {}
    /\ loaded = "pending"
    /\ idx = 0
    /\ new_listings = <<>>
    /\ duplicates_found = <<>>
    /\ skipped = 0
    /\ webhook = "none"
    /\ delivered = <<>>
    /\ prepared = <<>>
    /\ success = FALSE
    /\ store_calls = <<>>
    /\ inserted = <<>>
    /\ error = ""

\* nothing is exercised on its own
ConvIdle == conv_arg = <<>> /\ conv_res = <<>> /\ conv_mod = <<>>

NormIdle == norm_arg = <<>> /\ norm_res = <<>>

SaveIdle == save_args = <<>> /\ saved = {} /\ cireba_rows = <<>>

RunIdle ==
    /\ launcher = "" /\ child = "" /\ run_results = <<>> /\ events = <<>>
    /\ exit_code = ""

CleanIdle ==
    /\ old_rows = {} /\ recent_rows = {} /\ removed = {} /\ ids_to_delete = {}
    /\ total_deleted = 0 /\ clean_pc = "" /\ clean_ret = <<>>

CrawlIdle ==
    /\ site = "" /\ page_number = 0 /\ pages_crawled = 0 /\ crawl_result = <<>>
    /\ requested = <<>> /\ saved_files = <<>> /\ crawl_pc = "" /\ crawl_ret = <<>>

DedupeIdle == dedupe_arg = <<>> /\ dedupe_res = <<>>

FilterIdle == filter_arg = <<>> /\ filter_res = <<>>

CirebaIdle ==
    /\ categories = <<>> /\ category = 0 /\ existing_mls_numbers = {}
    /\ all_new_mls_numbers = <<>> /\ save_results = <<>> /\ tracked = <<>>

Init ==
    /\ variant \in {"dd", "mls"}
    /\ raw \in BatchesOf(ListingPool)
    /\ table \in TablePool
    /\ pc = "phase2"
    /\ InitCommon
    /\ ConvIdle /\ NormIdle /\ SaveIdle
    /\ RunIdle /\ CleanIdle /\ CrawlIdle /\ DedupeIdle /\ FilterIdle /\ CirebaIdle

\* ------------------------------------------------------- control transfer
\* the current function goes on to its next step
Goto(next) ==
    /\ pc' = next
    /\ UNCHANGED <<success, prepared, error>>

\* the filter returns (ok, rows) to main
ReturnToMain(ok, rows) ==
    /\ pc' = "main_result"
    /\ success' = ok
    /\ prepared' = rows
    /\ UNCHANGED error

\* --------------------------------------------------- ecaytrade.py, phase 2
\* main, the currency conversion loop over one category's listings
ConvertListing(l) ==
    LET c == ecaytrade_convert_ci_to_usd(l.price, l.currency)
    IN  [l EXCEPT !.currency = c[1], !.price = c[2]]

\* main: parsed_listings_by_url[base_url] of one category, as the
\* (source_url, listing) pairs the filter iterates over
CategoryEntries(c) ==
    LET converted == [i \in 1..Len(raw[c]) |-> ConvertListing(raw[c][i])]
        unique == deduplicate_listings(converted)
    IN  [i \in 1..Len(unique) |-> [source_url |-> Categories[c], listing |-> unique[i]]]

Phase2 ==
    /\ pc = "phase2"
    /\ parsed' = CategoryEntries(1) \o CategoryEntries(2)
    /\ Goto(IF parsed' = <<>> THEN "done" ELSE "init_client")
    /\ UNCHANGED <<inVars, loadVars, partVars, hookVars, storeVars, unitVars>>

\* ------------------------------------------------------ reference loader
\* .range(first, last) on the table: rows first..last, 0-based, inclusive
Range(rows, first, last) ==
    SubSeq(rows, first + 1, IF last + 1 < Len(rows) THEN last + 1 ELSE Len(rows))

NextOffset_overlap(off) == off + page_size - 1

NextOffset(off) == off + page_size

\* The loader gives up.  load_existing_listings_cache / load_mls_listings
\* return False and the filter returns (False, []); get_existing_mls_numbers
\* returns the empty set.
LoadFailure_proceed ==
    /\ loaded' = "failed"
    /\ IF variant = "mlsnum" THEN Goto("mls_returned") ELSE Goto("process")

LoadFailure ==
    /\ loaded' = "failed"
    /\ IF variant = "mlsnum" THEN Goto("mls_returned") ELSE ReturnToMain(FALSE, <<>>)

\* initialize_supabase / create_client: returns, or raises and is caught
InitializeSupabase ==
    /\ pc = "init_client"
    /\ \/ Goto("load") /\ UNCHANGED loaded
       \/ LoadFailure
    /\ UNCHANGED <<inVars, parsed, offset, all_listings, reads, cache,
                   all_mls_numbers, partVars, hookVars, storeVars, unitVars>>

\* the MLS numbers of a page: {row['number'] for row in data if row['number']}
PageNumbers(data) == {data[i].number : i \in {k \in 1..Len(data) : data[k].number # 0}}

\* One iteration of the pagination loop.  The read raises (the loader's
\* except clause gives up), or returns the rows of the requested range.
ReadPage ==
    /\ pc = "load"
    /\ reads' = Append(reads, offset)
    /\ \/ /\ LoadFailure
          /\ all_mls_numbers' = {}
          /\ UNCHANGED <<offset, all_listings>>
       \/ LET data == Range(table, offset, offset + page_size - 1)
              last == data = <<>> \/ Len(data) < page_size
          IN  /\ IF variant = "mlsnum"
                 THEN /\ all_mls_numbers' = all_mls_numbers \cup PageNumbers(data)
                      /\ UNCHANGED all_listings
                 ELSE /\ all_listings' = all_listings \o data
                      /\ UNCHANGED all_mls_numbers
              /\ offset' = IF last THEN offset ELSE NextOffset(offset)
              /\ IF ~last THEN Goto("load") /\ UNCHANGED loaded
                 ELSE IF variant = "mlsnum"
                 THEN Goto("mls_returned") /\ loaded' = "ok"
                 ELSE Goto("build") /\ UNCHANGED loaded
    /\ UNCHANGED <<inVars, parsed, cache, partVars, hookVars, storeVars, unitVars>>

RefPriceUsd_stored(v, row) == row.price

\* price_usd of a reference row: DuplicateDetector converts str(price) by
\* the row's currency, MLSListingDetector takes float(price)
RefPriceUsd(v, row) ==
    IF v = "dd"
    THEN convert_ci_to_usd(FormatFloat(row.price), row.currency).usd
    ELSE row.price

CacheEntry(v, row) ==
    [id |-> row.id, name |-> row.name, price_usd |-> RefPriceUsd(v, row),
     link |-> row.link, source |-> extract_source_from_url(row.target_url)]

\* the loop that fills the cache, and "return True"
BuildCache ==
    /\ pc = "build"
    /\ cache' = [i \in 1..Len(all_listings) |-> CacheEntry(variant, all_listings[i])]
    /\ loaded' = "ok"
    /\ Goto("process")
    /\ UNCHANGED <<inVars, parsed, offset, all_listings, reads, all_mls_numbers,
                   partVars, hookVars, storeVars, unitVars>>

\* ------------------------------------------------------- process_listing
\* price_usd of a candidate, or the exception that leaves process_listing
CandidatePrice(v, listing) ==
    IF v = "dd"
    THEN convert_ci_to_usd(listing.price, listing.currency)
    ELSE LET a == ParseFloat(RemoveCommas(listing.price))
         IN  IF Truthy(listing.price) /\ a # ValueError
             THEN Conv("US$", a)
             ELSE Conv("US$", 0)

BelowThreshold_inclusive(price_usd) == price_usd <= ThresholdUSD * Mills

BelowThreshold(price_usd) == price_usd < ThresholdUSD * Mills

\* str(int(price_usd))
StrInt(price_usd) == NatToDigits(price_usd \div Mills)

\* processed_listing; the keys original_currency and original_price exist
\* in the DuplicateDetector only ("" and <<>> stand for their absence)
ProcessedListing(v, listing, source_url, price_usd) ==
    [name |-> listing.name,
     link |-> listing.link,
     beds |-> listing.beds,
     listing_type |-> listing.listing_type,
     sqft |-> listing.sqft,
     baths |-> listing.baths,
     acres |-> listing.acres,
     mls_number |-> listing.mls_number,
     price_usd |-> price_usd,
     currency |-> IF v = "dd" THEN "US$" ELSE listing.currency,
     price |-> IF v = "dd" THEN StrInt(price_usd) ELSE listing.price,
     original_currency |-> IF v = "dd" THEN listing.currency ELSE "",
     original_price |-> IF v = "dd" THEN listing.price ELSE <<>>,
     source_url |-> source_url,
     source |-> extract_source_from_url(source_url)]

\* the two branches of "if duplicate_match: ... else: ..."
AppendDuplicate_drop(dups, processed, match) == dups

AppendDuplicate(dups, processed, match) ==
    IF match.found
    THEN Append(dups, [new_listing |-> processed, duplicate_match |-> match])
    ELSE dups

AppendNew_always(news, processed, match) == Append(news, processed)

AppendNew_front(news, processed, match) ==
    IF match.found THEN news ELSE <<processed>> \o news

AppendNew(news, processed, match) ==
    IF match.found THEN news ELSE Append(news, processed)

\* a row with its optional acres key
WithAcres(row, acres) == IF acres.t # "none" THEN row @@ [acres |-> acres] ELSE row

\* The row get_new_listings_for_save builds for a new listing.  The
\* DuplicateDetector stores the normalized type under "type", the
\* MLSListingDetector under "listing_type".
PreparedRowOf(v, listing) ==
    LET fields ==
            [target_url |-> listing.source_url,
             mls_number |-> listing.mls_number,
             name |-> listing.name,
             sqft |-> CoerceSqft(PyStr(listing.sqft)),
             beds |-> CoerceBeds(PyStr(listing.beds)),
             baths |-> CoerceBeds(PyStr(listing.baths)),
             currency |-> "US$",
             price |-> PyFloat(listing.price_usd),
             link |-> listing.link]
        typed ==
            IF v = "dd"
            THEN fields @@ [type |-> normalize_listing_type(listing.listing_type)]
            ELSE fields @@ [listing_type |-> normalize_listing_type(listing.listing_type)]
    IN  WithAcres(typed, CoerceAcres(PyStr(listing.acres)))

PreparedRow(listing) == PreparedRowOf(variant, listing)

PreparedRows(news) == [i \in 1..Len(news) |-> PreparedRow(news[i])]

\* no coercion of the listing's fields raises
IsCoercible(listing) ==
    ~BedsRaises(PyStr(listing.beds)) /\ ~BedsRaises(PyStr(listing.baths))

\* An exception leaves the filter: main's "except Exception" logs it, sends
\* the failure notification and returns.
RaiseTo_salvage(err) ==
    /\ error' = err
    /\ pc' = "main_result"
    /\ success' = TRUE
    /\ prepared' = PreparedRows(SelectSeq(new_listings, IsCoercible))

RaiseTo(err) ==
    /\ error' = err
    /\ pc' = "failed"
    /\ UNCHANGED <<success, prepared>>

CacheAfterProcessing_remember(cachev, processed, match) ==
    Append(cachev, [id |-> 0, name |-> processed.name,
                    price_usd |-> processed.price_usd, link |-> processed.link,
                    source |-> processed.source])

CacheAfterProcessing_learn(cachev, processed, match) ==
    IF match.found THEN cachev
    ELSE Append(cachev, [id |-> 0, name |-> processed.name,
                         price_usd |-> processed.price_usd, link |-> processed.link,
                         source |-> processed.source])

\* the reference cache after process_listing placed a candidate: the method
\* reads the cache in check_duplicate / check_mls_match and never writes it
CacheAfterProcessing(cachev, processed, match) == cachev

\* one call of process_listing from the loop of the filter
ProcessListing ==
    /\ pc = "process"
    /\ idx < Len(parsed)
    /\ idx' = idx + 1
    /\ LET cand == parsed[idx + 1]
           conv == CandidatePrice(variant, cand.listing)
           processed == ProcessedListing(variant, cand.listing, cand.source_url, conv.usd)
           match == check_duplicate(conv.usd, processed.name, cache)
       IN  IF conv.raised
           THEN /\ RaiseTo("ValueError")
                /\ UNCHANGED <<new_listings, duplicates_found, skipped, cache>>
           ELSE /\ Goto(IF idx + 1 = Len(parsed) THEN "webhook" ELSE "process")
                /\ IF BelowThreshold(conv.usd)
                   THEN /\ skipped' = skipped + 1
                        /\ UNCHANGED <<new_listings, duplicates_found, cache>>
                   ELSE /\ duplicates_found' = AppendDuplicate(duplicates_found, processed, match)
                        /\ new_listings' = AppendNew(new_listings, processed, match)
                        /\ cache' = CacheAfterProcessing(cache, processed, match)
                        /\ UNCHANGED skipped
    /\ UNCHANGED <<inVars, parsed, offset, all_listings, reads, all_mls_numbers,
                   loaded, hookVars, storeVars, unitVars>>

\* ---------------------------------------------------- send_batch_webhook
\* one entry of payload["duplicates"]
DuplicateEntry(cachev, dup) ==
    [link |-> dup.new_listing.link,
     name |-> dup.new_listing.name,
     price_usd |-> dup.new_listing.price_usd,
     match_id |-> cachev[dup.duplicate_match.existing_listing].id,
     similarity_score |-> dup.duplicate_match.similarity_score]

Payload == [i \in 1..Len(duplicates_found) |-> DuplicateEntry(cache, duplicates_found[i])]

\* the value send_batch_webhook returns for an outcome of requests.post:
\* "ok" (status 200), "status" (another status), "exception" (post raised)
WebhookReturn(outcome) == outcome # "exception"

\* send_batch_webhook; nothing is posted when there are no duplicates
SendBatchWebhook ==
    /\ pc = "webhook"
    /\ IF duplicates_found = <<>>
       THEN /\ success' = TRUE
            /\ UNCHANGED <<webhook, delivered>>
       ELSE \E outcome \in {"ok", "status", "exception"} :
                /\ webhook' = outcome
                /\ delivered' = IF outcome = "ok" THEN Payload ELSE <<>>
                /\ success' = WebhookReturn(outcome)
    /\ pc' = "prepare"
    /\ UNCHANGED <<inVars, parsed, loadVars, partVars, storeVars, unitVars,
                   prepared, error>>

\* get_new_listings_for_save, and the filter's "return webhook_success,
\* prepared_listings"
GetNewListingsForSave ==
    /\ pc = "prepare"
    /\ IF \E i \in 1..Len(new_listings) : ~IsCoercible(new_listings[i])
       THEN RaiseTo("OverflowError")
       ELSE ReturnToMain(success, PreparedRows(new_listings))
    /\ UNCHANGED <<inVars, parsed, loadVars, partVars, hookVars, storeVars, unitVars>>

\* ------------------------------------------------- ecaytrade.py, phase 3
prepare_listing_row_copy_mls(result, target_url, include_mls) ==
    LET row ==
            [target_url |-> target_url,
             name |-> result.name,
             sqft |-> CoerceSqft(Get(result, "sqft")),
             beds |-> CoerceBeds(Get(result, "beds")),
             baths |-> CoerceBeds(Get(result, "baths")),
             currency |-> result.currency,
             price |-> CoercePrice(Get(result, "price")),
             link |-> result.link,
             type |-> normalize_listing_type(GetStr(result, "listing_type"))]
        withMls ==
            IF "mls_number" \in DOMAIN result
            THEN row @@ [mls_number |-> result.mls_number]
            ELSE row
    IN  WithAcres(withMls, CoerceAcres(Get(result, "acres")))

\* prepare_listing_row(result, target_url, include_mls): the row, built
\* from scratch out of the fields of result
prepare_listing_row(result, target_url, include_mls) ==
    LET row ==
            [target_url |-> target_url,
             name |-> result.name,
             sqft |-> CoerceSqft(Get(result, "sqft")),
             beds |-> CoerceBeds(Get(result, "beds")),
             baths |-> CoerceBeds(Get(result, "baths")),
             currency |-> result.currency,
             price |-> CoercePrice(Get(result, "price")),
             link |-> result.link,
             type |-> normalize_listing_type(GetStr(result, "listing_type"))]
        withMls ==
            IF include_mls
            THEN row @@ [mls_number |-> GetStr(result, "mls_number")]
            ELSE row
    IN  WithAcres(withMls, CoerceAcres(Get(result, "acres")))

\* prepare_listing_row raises on this result
PrepareRaises(result) ==
    BedsRaises(Get(result, "beds")) \/ BedsRaises(Get(result, "baths"))

\* rows_to_insert of save_to_listings_table
RowsToInsert(results, target_url, include_mls) ==
    [i \in 1..Len(results) |-> prepare_listing_row(results[i], target_url, include_mls)]

\* the rows save_to_ecaytrade_table(first_url, deduplicate_listings(...)) sends
InsertRows(rows, first_url) ==
    RowsToInsert(deduplicate_listings(rows), first_url, FALSE)

\* whether main saves what the filter returned
MainSaves(ok, rows) == ok /\ rows # <<>>

\* main after the filter returned; the insert is stored, or fails
MainResult ==
    /\ pc = "main_result"
    /\ IF MainSaves(success, prepared)
       THEN LET rows == InsertRows(prepared, parsed[1].source_url)
            IN  /\ store_calls' = Append(store_calls, rows)
                /\ \/ inserted' = inserted \o rows
                   \/ UNCHANGED inserted
       ELSE UNCHANGED <<store_calls, inserted>>
    /\ Goto("done")
    /\ UNCHANGED <<inVars, parsed, loadVars, partVars, hookVars, unitVars>>

Next ==
    \/ Phase2
    \/ InitializeSupabase
    \/ ReadPage
    \/ BuildCache
    \/ ProcessListing
    \/ SendBatchWebhook
    \/ GetNewListingsForSave
    \/ MainResult

\* an EcayTrade run: main from phase 2 on, with either filter
Spec == Init /\ [][Next]_vars

\* ------------------------------------------------ the loaders on their own
\* the currency column of the rows of a large table
RowCurrency(i) == IF i % 3 = 1 THEN "US$" ELSE IF i % 3 = 2 THEN "CI$" ELSE "KYD"

BigTable(n) == [i \in 1..n |-> RefRow(i, <<>>, i * Mills, RowCurrency(i), "")]

TableSizes ==
    {k * page_size + d : k \in 0..MaxPages, d \in {0, 1, page_size \div 2, page_size - 1}}

InitLoad ==
    /\ variant \in {"dd", "mls", "mlsnum"}
    /\ raw = [c \in 1..2 |-> <<>>]
    /\ table \in {BigTable(n) : n \in TableSizes}
    /\ pc = "init_client"
    /\ InitCommon
    /\ ConvIdle /\ NormIdle /\ SaveIdle
    /\ RunIdle /\ CleanIdle /\ CrawlIdle /\ DedupeIdle /\ FilterIdle /\ CirebaIdle

NextLoad ==
    \/ InitializeSupabase
    \/ ReadPage
    \/ BuildCache

SpecLoad == InitLoad /\ [][NextLoad]_vars

\* ------------------------------------------------ the conversion on its own
PricePool ==
    {FormatFloat(k * 137) : k \in 0..MaxSmallAmount}
    \cup { <<>>,
           <<"P", "O", "A">>,
           <<"1", "6", "4", ",", "0", "0", "0">>,
           <<"2", "0", "0", ",", "0", "0", "0", ".", "0", "0">>,
           <<"1", ",", "2", "3", "4", ".", "5", "6">>,
           <<"3", "3", "0", "0", "0", "0", ".", "1", "2", "9">>,
           <<"4", "0", "0", ",", "0", "0", "0">> }

CurrencyPool == {"CI$", "US$", "KYD"}

InitConv ==
    /\ variant = "dd"
    /\ raw = [c \in 1..2 |-> <<>>]
    /\ table = <<>>
    /\ pc = "conv"
    /\ InitCommon
    /\ conv_arg \in PricePool \X CurrencyPool
    /\ conv_res = <<>>
    /\ conv_mod = <<>>
    /\ NormIdle /\ SaveIdle
    /\ RunIdle /\ CleanIdle /\ CrawlIdle /\ DedupeIdle /\ FilterIdle /\ CirebaIdle

\* DuplicateDetector.convert_ci_to_usd(price_str, currency)
ConvertDetector ==
    /\ pc = "conv"
    /\ conv_res' = convert_ci_to_usd(conv_arg[1], conv_arg[2])
    /\ Goto("conv_done")
    /\ UNCHANGED <<inVars, parsed, loadVars, partVars, hookVars, storeVars,
                   conv_arg, conv_mod, normVars, saveVars, opsVars>>

\* the result of one module-level convert_ci_to_usd is recorded
ApplyModuleConversion(impl, result) ==
    /\ impl \notin DOMAIN conv_mod
    /\ conv_mod' = conv_mod @@ (impl :> result)

\* ecaytrade.convert_ci_to_usd(price_str, currency) on the same argument
ConvertEcaytrade ==
    /\ pc \in {"conv", "conv_done"}
    /\ ApplyModuleConversion("ecaytrade",
                             ecaytrade_convert_ci_to_usd(conv_arg[1], conv_arg[2]))
    /\ UNCHANGED <<inVars, parsed, loadVars, partVars, hookVars, storeVars,
                   ctlVars, conv_arg, conv_res, normVars, saveVars, opsVars>>

\* cireba.convert_ci_to_usd(price_str, currency) on the same argument
ConvertCireba ==
    /\ pc \in {"conv", "conv_done"}
    /\ ApplyModuleConversion("cireba",
                             cireba_convert_ci_to_usd(conv_arg[1], conv_arg[2]))
    /\ UNCHANGED <<inVars, parsed, loadVars, partVars, hookVars, storeVars,
                   ctlVars, conv_arg, conv_res, normVars, saveVars, opsVars>>

\* century21.convert_ci_to_usd(price_str, currency) on the same argument
ConvertCentury21 ==
    /\ pc \in {"conv", "conv_done"}
    /\ ApplyModuleConversion("century21",
                             century21_convert_ci_to_usd(conv_arg[1], conv_arg[2]))
    /\ UNCHANGED <<inVars, parsed, loadVars, partVars, hookVars, storeVars,
                   ctlVars, conv_arg, conv_res, normVars, saveVars, opsVars>>

NextConv ==
    \/ ConvertDetector
    \/ ConvertEcaytrade
    \/ ConvertCireba
    \/ ConvertCentury21

SpecConv == InitConv /\ [][NextConv]_vars

\* ------------------------------------------- the normalization on its own
\* raw listing_type strings
RawCondoDuplex == <<"C", "o", "n", "d", "o", " ", "D", "u", "p", "l", "e", "x">>

RawDuplexCondo == <<"D", "u", "p", "l", "e", "x", " ", "C", "o", "n", "d", "o">>

RawHouses == <<"H", "o", "u", "s", "e", "s">>

RawLotsLands == <<"L", "o", "t", "s", " ", "&", " ", "L", "a", "n", "d", "s">>

RawCondos == <<"C", "o", "n", "d", "o", "s">>

RawApartments == <<"A", "p", "a", "r", "t", "m", "e", "n", "t", "s">>

RawTownhouses == <<"T", "o", "w", "n", "h", "o", "u", "s", "e", "s">>

RawMultiUnitPadded == <<" ", "M", "U", "L", "T", "I", "-", "U", "N", "I", "T", " ">>

RawCommercialUnit == <<"C", "o", "m", "m", "e", "r", "c", "i", "a", "l", " ", "U", "n", "i", "t">>

RawTriplexTownhouse == <<"T", "r", "i", "p", "l", "e", "x", " ", "T", "o", "w", "n", "h", "o", "u", "s", "e">>

RawVacantCommercial == <<"V", "a", "c", "a", "n", "t", " ", "C", "o", "m", "m", "e", "r", "c", "i", "a", "l">>

RawCondominium == <<"C", "o", "n", "d", "o", "m", "i", "n", "i", "u", "m">>

RawApartmentUnit == <<"A", "p", "a", "r", "t", "m", "e", "n", "t", " ", "U", "n", "i", "t">>

RawBlank == <<" ", " ">>

CanonicalTypes ==
    {TypeHome, TypeLand, TypeCommercial, TypeMultiUnit, TypeDuplex, TypeTriplex,
     TypeTownhouse, TypeCondo, TypeApartment}

TypePool ==
    CanonicalTypes
    \cup {<<>>, TypeLandDuplex, RawCondoDuplex, RawDuplexCondo, RawHouses, RawLotsLands, RawCondos, RawApartments, RawTownhouses, RawMultiUnitPadded, RawCommercialUnit, RawTriplexTownhouse, RawVacantCommercial, RawCondominium, RawApartmentUnit, RawBlank}

\* One pass of a listing through the normalization: normalize_listing_type
\* on its listing_type and process_listing on its price.  The outcome is
\* "raised", "skipped" (under the threshold) or "kept" with the record
\* process_listing built.
NormalizeRecord(v, listing, source_url) ==
    LET typed == [listing EXCEPT !.listing_type = normalize_listing_type(@)]
        conv == CandidatePrice(v, typed)
    IN  IF conv.raised THEN [outcome |-> "raised", listing |-> typed]
        ELSE IF BelowThreshold(conv.usd) THEN [outcome |-> "skipped", listing |-> typed]
        ELSE [outcome |-> "kept",
              listing |-> ProcessedListing(v, typed, source_url, conv.usd)]

InitNorm ==
    /\ variant \in {"dd", "mls"}
    /\ raw = [c \in 1..2 |-> <<>>]
    /\ table = <<>>
    /\ pc = "norm"
    /\ InitCommon
    /\ norm_arg \in {[l EXCEPT !.listing_type = t] : l \in ListingPool, t \in TypePool}
    /\ norm_res = <<>>
    /\ ConvIdle /\ SaveIdle
    /\ RunIdle /\ CleanIdle /\ CrawlIdle /\ DedupeIdle /\ FilterIdle /\ CirebaIdle

\* the raw listing is normalized
NormalizeOnce ==
    /\ pc = "norm"
    /\ norm_res' = <<NormalizeRecord(variant, norm_arg, UrlProperties)>>
    /\ Goto(IF norm_res'[1].outcome = "kept" THEN "norm_once" ELSE "norm_dropped")
    /\ UNCHANGED <<inVars, parsed, loadVars, partVars, hookVars, storeVars,
                   convVars, norm_arg, saveVars, opsVars>>

\* the record of the first pass is normalized again
NormalizeAgain ==
    /\ pc = "norm_once"
    /\ norm_res' = Append(norm_res, NormalizeRecord(variant, norm_res[1].listing, UrlProperties))
    /\ Goto("norm_twice")
    /\ UNCHANGED <<inVars, parsed, loadVars, partVars, hookVars, storeVars,
                   convVars, norm_arg, saveVars, opsVars>>

NextNorm ==
    \/ NormalizeOnce
    \/ NormalizeAgain

SpecNorm == InitNorm /\ [][NextNorm]_vars

\* ---------------------------------------- save_to_listings_table on its own
\* the dict without one of its keys
WithoutKey(r, key) == [k \in DOMAIN r \ {key} |-> r[k]]

\* a parsed listing as the result dict save_to_listings_table is given
ToResult(l) ==
    [name |-> l.name, currency |-> l.currency, link |-> l.link,
     listing_type |-> l.listing_type, mls_number |-> l.mls_number,
     price |-> PyStr(l.price), sqft |-> PyStr(l.sqft), beds |-> PyStr(l.beds),
     baths |-> PyStr(l.baths), acres |-> PyStr(l.acres)]

\* the listings of the pool the filter v keeps and can prepare
Preparable(v) ==
    {l \in ListingPool :
        /\ ~CandidatePrice(v, l).raised
        /\ ~BelowThreshold(CandidatePrice(v, l).usd)
        /\ IsCoercible(l)}

\* the listings of the pool that carry optional fields
SavePool ==
    {l \in ListingPool : l.link \in {"advert/2", "advert/3", "advert/5", "advert/10"}}

\* The results a save can be given: parsed listings with and without an
\* mls_number key, and rows prepared by the filter (which carry the key).
ResultPool(v) ==
    {ToResult(l) : l \in SavePool}
    \cup {WithoutKey(ToResult(l), "mls_number") : l \in SavePool}
    \cup {PreparedRowOf(v, ProcessedListing(v, l, UrlProperties, CandidatePrice(v, l).usd)) :
             l \in Preparable(v) \cap SavePool}

InitSave ==
    /\ variant \in {"dd", "mls"}
    /\ raw = [c \in 1..2 |-> <<>>]
    /\ table = <<>>
    /\ pc = "save"
    /\ InitCommon
    /\ save_args \in [target_url : {UrlProperties},
                       results : SeqsUpTo(ResultPool(variant), MaxBatch)]
    /\ saved = {}
    /\ cireba_rows = <<>>
    /\ ConvIdle /\ NormIdle
    /\ RunIdle /\ CleanIdle /\ CrawlIdle /\ DedupeIdle /\ FilterIdle /\ CirebaIdle

\* save_to_listings_table(target_url, results, table_name, include_mls):
\* create_client or prepare_listing_row raises (caught, False), there is
\* nothing to insert (True), or the insert is requested and is stored (True)
\* or fails (False)
SaveToListingsTable(target_url, results, table_name, include_mls) ==
    LET rows == RowsToInsert(results, target_url, include_mls)
        raises == \E i \in 1..Len(results) : PrepareRaises(results[i])
        ecay == table_name = "ecaytrade_listings"
    IN  \/ /\ success' = FALSE
           /\ UNCHANGED <<store_calls, inserted, cireba_rows>>
        \/ /\ ~raises /\ rows = <<>>
           /\ success' = TRUE
           /\ UNCHANGED <<store_calls, inserted, cireba_rows>>
        \/ /\ ~raises /\ rows # <<>>
           /\ store_calls' = IF ecay THEN Append(store_calls, rows) ELSE store_calls
           /\ \/ /\ success' = TRUE
                 /\ inserted' = IF ecay THEN inserted \o rows ELSE inserted
                 /\ cireba_rows' = IF ecay THEN cireba_rows ELSE cireba_rows \o rows
              \/ /\ success' = FALSE
                 /\ UNCHANGED <<inserted, cireba_rows>>

\* save_to_supabase(target_url, results)
SaveToSupabase ==
    /\ pc = "save"
    /\ "cireba_listings" \notin saved
    /\ saved' = saved \cup {"cireba_listings"}
    /\ SaveToListingsTable(save_args.target_url, save_args.results, "cireba_listings", TRUE)
    /\ UNCHANGED <<inVars, parsed, loadVars, partVars, hookVars, convVars, normVars,
                   save_args, pc, prepared, error, opsVars>>

\* save_to_ecaytrade_table(target_url, results)
SaveToEcaytradeTable ==
    /\ pc = "save"
    /\ "ecaytrade_listings" \notin saved
    /\ saved' = saved \cup {"ecaytrade_listings"}
    /\ SaveToListingsTable(save_args.target_url, save_args.results, "ecaytrade_listings", FALSE)
    /\ UNCHANGED <<inVars, parsed, loadVars, partVars, hookVars, convVars, normVars,
                   save_args, pc, prepared, error, opsVars>>

NextSave ==
    \/ SaveToSupabase
    \/ SaveToEcaytradeTable

SpecSave == InitSave /\ [][NextSave]_vars

\* ------------------------------------- run_all.py, run_all_ubuntu.py: main
Script(dir, name, timeout_minutes) ==
    [dir |-> dir, name |-> name, timeout_minutes |-> timeout_minutes]

\* main: the scrapers list of each launcher
Scrapers(l) ==
    IF l = "run_all.py"
    THEN <<Script("", "cireba.py", 20), Script("", "ecaytrade.py", 15),
           Script("", "cleanup_logs.py", 5), Script("", "cleanup_database.py", 10)>>
    ELSE <<Script("scraper-scripts", "cireba.py", 20),
           Script("scraper-scripts", "ecaytrade.py", 15),
           Script("scraper-scripts", "cleanup_database.py", 10)>>

\* the script the for loop of main is at
CurrentScript == Scrapers(launcher)[Len(run_results) + 1]

Event(script, what) == [script |-> script, what |-> what]

\* main's for loop has scripts left and no subprocess is running
AtLoopHead ==
    /\ launcher # ""
    /\ exit_code = ""
    /\ child = ""
    /\ Len(run_results) < Len(Scrapers(launcher))

\* results.append(success), and what is known of the script's end
Record(script, what, ok) ==
    /\ run_results' = Append(run_results, ok)
    /\ events' = Append(events, Event(script, what))

\* main: "if not os.path.exists(script_name): results.append(False); continue"
ScriptMissing ==
    /\ AtLoopHead
    /\ Record(CurrentScript, "missing", FALSE)
    /\ UNCHANGED <<launcher, child, exit_code>>
    /\ UNCHANGED <<inVars, parsed, loadVars, partVars, hookVars, storeVars, ctlVars,
                   convVars, normVars, saveVars, cleanVars, crawlVars, dedupeVars,
                   filterVars, cirebaVars>>

\* run_scraper: subprocess.run starts the script, or raises before the
\* script runs ("except Exception": False)
RunScraper ==
    /\ AtLoopHead
    /\ \/ /\ child' = CurrentScript.name
          /\ events' = Append(events, Event(CurrentScript, "started"))
          /\ UNCHANGED run_results
       \/ /\ Record(CurrentScript, "error", FALSE)
          /\ UNCHANGED child
    /\ UNCHANGED <<launcher, exit_code>>
    /\ UNCHANGED <<inVars, parsed, loadVars, partVars, hookVars, storeVars, ctlVars,
                   convVars, normVars, saveVars, cleanVars, crawlVars, dedupeVars,
                   filterVars, cirebaVars>>

\* run_scraper: "return result.returncode == 0"
ReturnCodeOk_nonzero(returncode) == returncode # 0

ReturnCodeOk(returncode) == returncode = 0

\* run_scraper: subprocess.run returns when the script has exited
ChildExits ==
    /\ child # ""
    /\ \E returncode \in 0..2 :
           Record(CurrentScript, IF returncode = 0 THEN "exit 0" ELSE "exit nonzero",
                  ReturnCodeOk(returncode))
    /\ child' = ""
    /\ UNCHANGED <<launcher, exit_code>>
    /\ UNCHANGED <<inVars, parsed, loadVars, partVars, hookVars, storeVars, ctlVars,
                   convVars, normVars, saveVars, cleanVars, crawlVars, dedupeVars,
                   filterVars, cirebaVars>>

\* run_scraper: subprocess.run kills the script after timeout_minutes and
\* raises TimeoutExpired ("except subprocess.TimeoutExpired": False)
ChildTimesOut ==
    /\ child # ""
    /\ Record(CurrentScript, "timeout", FALSE)
    /\ child' = ""
    /\ UNCHANGED <<launcher, exit_code>>
    /\ UNCHANGED <<inVars, parsed, loadVars, partVars, hookVars, storeVars, ctlVars,
                   convVars, normVars, saveVars, cleanVars, crawlVars, dedupeVars,
                   filterVars, cirebaVars>>

\* successful = sum(results)
Successful(rs) == Cardinality({i \in 1..Len(rs) : rs[i]})

\* main: sys.exit(1) if successful < total else sys.exit(0)
ExitStatus(rs, total) == IF Successful(rs) < total THEN "1" ELSE "0"

\* main after the for loop: the summary and sys.exit
Exit ==
    /\ launcher # ""
    /\ exit_code = ""
    /\ Len(run_results) = Len(Scrapers(launcher))
    /\ exit_code' = ExitStatus(run_results, Len(Scrapers(launcher)))
    /\ UNCHANGED <<launcher, child, run_results, events>>
    /\ UNCHANGED <<inVars, parsed, loadVars, partVars, hookVars, storeVars, ctlVars,
                   convVars, normVars, saveVars, cleanVars, crawlVars, dedupeVars,
                   filterVars, cirebaVars>>

\* nothing of an EcayTrade run is in progress
MainIdle ==
    /\ variant = "dd"
    /\ raw = [c \in 1..2 |-> <<>>]
    /\ table = <<>>
    /\ pc = "idle"
    /\ InitCommon
    /\ ConvIdle /\ NormIdle /\ SaveIdle

\* main of a launcher, after save_scraping_job_history (which catches its
\* exceptions) returned
InitRun ==
    /\ MainIdle
    /\ launcher \in {"run_all.py", "run_all_ubuntu.py"}
    /\ child = "" /\ run_results = <<>> /\ events = <<>> /\ exit_code = ""
    /\ CleanIdle /\ CrawlIdle /\ DedupeIdle /\ FilterIdle /\ CirebaIdle

NextRun ==
    \/ ScriptMissing
    \/ RunScraper
    \/ ChildExits
    \/ ChildTimesOut
    \/ Exit

SpecRun == InitRun /\ [][NextRun]_vars

\* ------------------------------ cleanup_database.py: cleanup_old_listings
batch_size == 100

\* the largest number of old rows beyond one full batch
MaxExtraRows == 1

\* the rows of a set that have fewer than n rows of the set before them
Lowest(S, n) == {x \in S : Cardinality({y \in S : y < x}) < n}

\* the rows of a set that have fewer than n rows of the set after them
Highest(S, n) == {x \in S : Cardinality({y \in S : y > x}) < n}

\* select('id').lt('created_at', cutoff_iso).limit(batch_size): the store
\* returns the rows in the order of their ids
SelectOld(rows, limit) == Lowest(rows, limit)

\* the function returns
CleanReturn(n, ok) ==
    /\ clean_ret' = <<n, ok>>
    /\ clean_pc' = "done"

\* "except Exception": return 0, False
CleanRaises ==
    /\ CleanReturn(0, FALSE)
    /\ UNCHANGED <<old_rows, recent_rows, removed, ids_to_delete, total_deleted>>

\* the count query: "if records_to_delete == 0: return 0, True"
CountOld ==
    /\ clean_pc = "count"
    /\ \/ CleanRaises
       \/ /\ IF Cardinality(old_rows) = 0
             THEN CleanReturn(0, TRUE)
             ELSE clean_pc' = "select" /\ UNCHANGED clean_ret
          /\ UNCHANGED <<old_rows, recent_rows, removed, ids_to_delete, total_deleted>>
    /\ UNCHANGED <<inVars, parsed, loadVars, partVars, hookVars, storeVars, ctlVars,
                   convVars, normVars, saveVars, runVars, crawlVars, dedupeVars,
                   filterVars, cirebaVars>>

\* the batch query of the while loop: "if not batch_response.data: break"
SelectBatch ==
    /\ clean_pc = "select"
    /\ \/ CleanRaises
       \/ LET data == SelectOld(old_rows, batch_size)
          IN  /\ ids_to_delete' = data
              /\ IF data = {}
                 THEN CleanReturn(total_deleted, TRUE)
                 ELSE clean_pc' = "delete" /\ UNCHANGED clean_ret
              /\ UNCHANGED <<old_rows, recent_rows, removed, total_deleted>>
    /\ UNCHANGED <<inVars, parsed, loadVars, partVars, hookVars, storeVars, ctlVars,
                   convVars, normVars, saveVars, runVars, crawlVars, dedupeVars,
                   filterVars, cirebaVars>>

\* whether the loop ends after a batch: "if len(batch_response.data) < batch_size"
LastBatch(selected, batch_deleted) == selected < batch_size

\* delete().in_('id', ids_to_delete): the store deletes any number of the
\* selected rows and returns them; batch_deleted = len(delete_response.data)
DeleteBatch ==
    /\ clean_pc = "delete"
    /\ \/ CleanRaises
       \/ \E batch_deleted \in 0..Cardinality(ids_to_delete) :
            LET gone == Highest(ids_to_delete, batch_deleted)
            IN  /\ old_rows' = old_rows \ gone
                /\ removed' = removed \cup gone
                /\ total_deleted' = total_deleted + batch_deleted
                /\ IF LastBatch(Cardinality(ids_to_delete), batch_deleted)
                   THEN CleanReturn(total_deleted + batch_deleted, TRUE)
                   ELSE clean_pc' = "select" /\ UNCHANGED clean_ret
                /\ UNCHANGED <<recent_rows, ids_to_delete>>
    /\ UNCHANGED <<inVars, parsed, loadVars, partVars, hookVars, storeVars, ctlVars,
                   convVars, normVars, saveVars, runVars, crawlVars, dedupeVars,
                   filterVars, cirebaVars>>

\* the numbers of old rows a table can hold
OldRowCounts == 0..2 \cup (batch_size - 1)..(batch_size + MaxExtraRows)

\* cleanup_old_listings is called; old rows have the ids 1..n, the rows at
\* or after the cutoff the ids after them
InitClean ==
    /\ MainIdle
    /\ \E n \in OldRowCounts, r \in 0..1 :
           /\ old_rows = 1..n
           /\ recent_rows = (n + 1)..(n + r)
    /\ removed = {} /\ ids_to_delete = {} /\ total_deleted = 0
    /\ clean_pc = "count" /\ clean_ret = <<>>
    /\ RunIdle /\ CrawlIdle /\ DedupeIdle /\ FilterIdle /\ CirebaIdle

NextClean ==
    \/ CountOld
    \/ SelectBatch
    \/ DeleteBatch

SpecClean == InitClean /\ [][NextClean]_vars

\* ------------------------- ecaytrade.py, cireba.py: crawl_category_pages
\* the largest page number a site serves
MaxCrawlPages == 3

MinMarkdownLength == 100

\* a result of crawler.arun: success, len(markdown.strip()) and the number
\* of listings parse_markdown_list finds in the markdown
CrawlResult(ok, markdown_length, listings) ==
    [success |-> ok, markdown_length |-> markdown_length, listings |-> listings]

\* the results a request can have
CrawlResults ==
    { CrawlResult(FALSE, 0, 0),
      CrawlResult(TRUE, 0, 0),
      CrawlResult(TRUE, MinMarkdownLength - 1, 0),
      CrawlResult(TRUE, MinMarkdownLength, 0),
      CrawlResult(TRUE, MinMarkdownLength, 1),
      CrawlResult(TRUE, 50 * MinMarkdownLength, 2) }

\* the test that ends the loop on a successful result: no listings parsed
\* (ecaytrade.py), no markdown or fewer than 100 characters of it (cireba.py)
IsEmptyPage(s, result) ==
    IF s = "ecaytrade.py"
    THEN result.listings = 0
    ELSE result.markdown_length = 0 \/ result.markdown_length < MinMarkdownLength

\* the loop ends on this result
StopsCrawl(s, result) == ~result.success \/ IsEmptyPage(s, result)

NextPage_skip(n) == n + 2

\* page_number += 1
NextPage(n) == n + 1

\* result = await crawler.arun(url=current_url, config=config)
Arun ==
    /\ crawl_pc = "request"
    /\ requested' = Append(requested, page_number)
    /\ \E result \in CrawlResults :
           /\ page_number > MaxCrawlPages => StopsCrawl(site, result)
           /\ crawl_result' = result
    /\ crawl_pc' = "save"
    /\ UNCHANGED <<site, page_number, pages_crawled, saved_files, crawl_ret>>
    /\ UNCHANGED <<inVars, parsed, loadVars, partVars, hookVars, storeVars, ctlVars,
                   convVars, normVars, saveVars, runVars, cleanVars, dedupeVars,
                   filterVars, cirebaVars>>

\* save_crawl_result(result, current_url, page_number)
SaveCrawlResult ==
    /\ crawl_pc = "save"
    /\ saved_files' = Append(saved_files, [page_number |-> page_number,
                                           result |-> crawl_result])
    /\ crawl_pc' = "decide"
    /\ UNCHANGED <<site, page_number, pages_crawled, crawl_result, requested, crawl_ret>>
    /\ UNCHANGED <<inVars, parsed, loadVars, partVars, hookVars, storeVars, ctlVars,
                   convVars, normVars, saveVars, runVars, cleanVars, dedupeVars,
                   filterVars, cirebaVars>>

\* the rest of the loop body: break and return pages_crawled, or count the
\* page and move to the next one
ContinueOrReturn ==
    /\ crawl_pc = "decide"
    /\ IF StopsCrawl(site, crawl_result)
       THEN /\ crawl_ret' = <<pages_crawled>>
            /\ crawl_pc' = "done"
            /\ UNCHANGED <<page_number, pages_crawled>>
       ELSE /\ pages_crawled' = pages_crawled + 1
            /\ page_number' = NextPage(page_number)
            /\ crawl_pc' = "request"
            /\ UNCHANGED crawl_ret
    /\ UNCHANGED <<site, crawl_result, requested, saved_files>>
    /\ UNCHANGED <<inVars, parsed, loadVars, partVars, hookVars, storeVars, ctlVars,
                   convVars, normVars, saveVars, runVars, cleanVars, dedupeVars,
                   filterVars, cirebaVars>>

\* crawl_category_pages(crawler, base_url, config) is called
InitCrawl ==
    /\ MainIdle
    /\ site \in {"ecaytrade.py", "cireba.py"}
    /\ page_number = 1 /\ pages_crawled = 0 /\ crawl_result = <<>>
    /\ requested = <<>> /\ saved_files = <<>>
    /\ crawl_pc = "request" /\ crawl_ret = <<>>
    /\ RunIdle /\ CleanIdle /\ DedupeIdle /\ FilterIdle /\ CirebaIdle

NextCrawl ==
    \/ Arun
    \/ SaveCrawlResult
    \/ ContinueOrReturn

SpecCrawl == InitCrawl /\ [][NextCrawl]_vars

\* ------------------------------------- the de-duplication on its own
\* the longest list given to a de-duplication
MaxDedupe == 3

\* listings with the same and with different links, with an empty link and
\* without a link key
DedupePool ==
    { [name |-> n, link |-> l] : n \in {NameVilla8, NameVilla9},
                                 l \in {"advert/1", "advert/2", ""} }
    \cup { [name |-> n] : n \in {NameVilla8, NameVilla9} }

InitDedupe ==
    /\ MainIdle
    /\ dedupe_arg \in SeqsUpTo(DedupePool, MaxDedupe)
    /\ dedupe_res = <<>>
    /\ RunIdle /\ CleanIdle /\ CrawlIdle /\ FilterIdle /\ CirebaIdle

\* the output of a de-duplication, and the output of applying it again
Outputs(once, twice) == [once |-> once, twice |-> twice]

\* deduplicate_listings(listings) and deduplicate_listings of its result
ApplyDeduplicateListings ==
    /\ dedupe_arg # <<>>
    /\ "deduplicate_listings" \notin DOMAIN dedupe_res
    /\ LET unique == deduplicate_listings(dedupe_arg)
       IN  dedupe_res' = dedupe_res @@
               [deduplicate_listings |-> Outputs(unique, deduplicate_listings(unique))]
    /\ UNCHANGED dedupe_arg
    /\ UNCHANGED <<inVars, parsed, loadVars, partVars, hookVars, storeVars, ctlVars,
                   convVars, normVars, saveVars, runVars, cleanVars, crawlVars,
                   filterVars, cirebaVars>>

\* dedupe_listings_by_url(listings) and dedupe_listings_by_url of its result
ApplyDedupeListingsByUrl ==
    /\ dedupe_arg # <<>>
    /\ "dedupe_listings_by_url" \notin DOMAIN dedupe_res
    /\ LET unique == dedupe_listings_by_url(dedupe_arg)
       IN  dedupe_res' = dedupe_res @@
               [dedupe_listings_by_url |-> Outputs(unique, dedupe_listings_by_url(unique))]
    /\ UNCHANGED dedupe_arg
    /\ UNCHANGED <<inVars, parsed, loadVars, partVars, hookVars, storeVars, ctlVars,
                   convVars, normVars, saveVars, runVars, cleanVars, crawlVars,
                   filterVars, cirebaVars>>

NextDedupe ==
    \/ ApplyDeduplicateListings
    \/ ApplyDedupeListingsByUrl

SpecDedupe == InitDedupe /\ [][NextDedupe]_vars

\* ------------------------------------ supabase_utils.py: filter_new_listings
\* the loop of filter_new_listings; mls_number = listing.get('mls_number')
RECURSIVE FilterFrom_untested(_, _, _, _)
FilterFrom_untested(listings, existing, new, skipped_count) ==
    IF listings = <<>> THEN [new_listings |-> new, skipped_count |-> skipped_count]
    ELSE LET listing == Head(listings)
             mls_number == GetStr(listing, "mls_number")
         IN  IF mls_number \in existing
             THEN FilterFrom_untested(Tail(listings), existing, new, skipped_count + 1)
             ELSE FilterFrom_untested(Tail(listings), existing, Append(new, listing),
                                      skipped_count)

filter_new_listings_untested(listings, existing) ==
    FilterFrom_untested(listings, existing, <<>>, 0)

RECURSIVE FilterFrom(_, _, _, _)
FilterFrom(listings, existing, new, skipped_count) ==
    IF listings = <<>> THEN [new_listings |-> new, skipped_count |-> skipped_count]
    ELSE LET listing == Head(listings)
             mls_number == GetStr(listing, "mls_number")
         IN  IF Truthy(mls_number) /\ mls_number \in existing
             THEN FilterFrom(Tail(listings), existing, new, skipped_count + 1)
             ELSE FilterFrom(Tail(listings), existing, Append(new, listing), skipped_count)

\* filter_new_listings(listings, existing_mls_numbers): the list returned
\* and the skipped_count it logs
filter_new_listings(listings, existing) == FilterFrom(listings, existing, <<>>, 0)

\* the longest list given to filter_new_listings
MaxFilter == 3

Mls419609 == <<"4", "1", "9", "6", "0", "9">>

Mls419610 == <<"4", "1", "9", "6", "1", "0">>

\* CIREBA listings with a tracked, an untracked, an empty and no MLS number
FilterPool ==
    { [name |-> n, link |-> "cireba/1", mls_number |-> m] :
          n \in {NameVilla8, NameVilla9}, m \in {Mls419609, Mls419610, <<>>} }
    \cup { [name |-> n, link |-> "cireba/2"] : n \in {NameVilla8, NameVilla9} }

InitFilter ==
    /\ MainIdle
    /\ filter_arg \in [listings : SeqsUpTo(FilterPool, MaxFilter),
                        existing : SUBSET {Mls419609, Mls419610, <<>>}]
    /\ filter_res = <<>>
    /\ RunIdle /\ CleanIdle /\ CrawlIdle /\ DedupeIdle /\ CirebaIdle

\* filter_new_listings(listings, existing_mls_numbers) is called
ApplyFilterNewListings ==
    /\ filter_arg # <<>>
    /\ filter_res = <<>>
    /\ filter_res' = filter_new_listings(filter_arg.listings, filter_arg.existing)
    /\ UNCHANGED filter_arg
    /\ UNCHANGED <<inVars, parsed, loadVars, partVars, hookVars, storeVars, ctlVars,
                   convVars, normVars, saveVars, runVars, cleanVars, crawlVars,
                   dedupeVars, cirebaVars>>

NextFilter == ApplyFilterNewListings

SpecFilter == InitFilter /\ [][NextFilter]_vars

\* ------------------------------------------------ cireba.py: main, phase 2
UrlCirebaLand == "https://www.cireba.com/cayman-land-for-sale/filterby_N"

\* two of the four base_urls of main: a residential category and land
CirebaUrls == <<UrlCireba, UrlCirebaLand>>

\* the number column of a row of mls_listings, as main compares it with a
\* listing's mls_number
MlsText(number) == NatToDigits(number)

\* mls_listings with n rows: the numbers 419609, 419610, ... in the order
\* the store returns them
MlsTable(n) == [i \in 1..n |-> [number |-> DigitsToNat(Mls419609) + i - 1]]

Mls419608 == <<"4", "1", "9", "6", "0", "8">>

\* parsed CIREBA listings: two listings with the same link and different
\* numbers, one that is never tracked, and one without a number
CirebaPool ==
    { ToResult(WithDetails(Listing(NameVilla9, <<"4", "5", "0", "0", "0", "0">>, "US$",
                                   "cireba/419609", <<"3">>),
                           TypeCondo, <<"1", ",", "2", "0", "0">>, <<"2">>, <<>>, Mls419609)),
      ToResult(WithDetails(Listing(NameVilla8, <<"3", "3", "0", "0", "0", "0">>, "CI$",
                                   "cireba/419609", <<"2">>),
                           TypeHome, <<>>, <<"1">>, <<>>, Mls419610)),
      ToResult(WithDetails(Listing(NameVilla, <<"9", "9", "0", "0", "0">>, "US$",
                                   "cireba/419608", <<>>),
                           TypeLand, <<>>, <<>>, <<"0", ".", "5">>, Mls419608)),
      WithoutKey(ToResult(Listing(NameCondo9, <<"2", "5", "0", "0", "0", "0">>, "US$",
                                  "cireba/0", <<"1">>)), "mls_number") }

\* phase 2 of main begins: the categories' saved results parse to these
\* listings and get_existing_mls_numbers is called
InitCireba ==
    /\ variant = "mlsnum"
    /\ raw = [c \in 1..2 |-> <<>>]
    /\ table \in {MlsTable(n) : n \in {0, 1, page_size + 1}}
    /\ pc = "init_client"
    /\ InitCommon
    /\ ConvIdle /\ NormIdle /\ SaveIdle
    /\ categories \in BatchesOf(CirebaPool)
    /\ category = 0 /\ existing_mls_numbers = {} /\ all_new_mls_numbers = <<>>
    /\ save_results = <<>> /\ tracked = <<>>
    /\ RunIdle /\ CleanIdle /\ CrawlIdle /\ DedupeIdle /\ FilterIdle

\* main: existing_mls_numbers = get_existing_mls_numbers(), and the empty
\* lists of the loop over the categories
CheckExisting ==
    /\ pc = "mls_returned"
    /\ existing_mls_numbers' = {MlsText(n) : n \in all_mls_numbers}
    /\ all_new_mls_numbers' = <<>>
    /\ category' = 1
    /\ Goto("category")
    /\ UNCHANGED <<categories, save_results, tracked>>
    /\ UNCHANGED <<inVars, parsed, loadVars, partVars, hookVars, storeVars,
                   convVars, normVars, saveVars, runVars, cleanVars, crawlVars,
                   dedupeVars, filterVars>>

\* [listing['mls_number'] for listing in new_listings if listing.get('mls_number')]
NewMlsNumbers(listings) ==
    LET numbered == SelectSeq(listings, LAMBDA l : Truthy(GetStr(l, "mls_number")))
    IN  [i \in 1..Len(numbered) |-> numbered[i].mls_number]

\* One pass of main's loop over base_urls: the category's listings are
\* filtered, the numbers of the new ones are collected and the new ones are
\* sent to save_to_supabase, whose return value main does not look at.
ProcessCategory ==
    /\ pc = "category"
    /\ LET category_listings == categories[category]
           new == filter_new_listings(category_listings, existing_mls_numbers).new_listings
       IN  IF category_listings # <<>> /\ new # <<>>
           THEN /\ all_new_mls_numbers' = all_new_mls_numbers \o NewMlsNumbers(new)
                /\ SaveToListingsTable(CirebaUrls[category], deduplicate_listings(new),
                                       "cireba_listings", TRUE)
                /\ save_results' = Append(save_results, success')
           ELSE UNCHANGED <<all_new_mls_numbers, save_results, success, store_calls,
                            inserted, cireba_rows>>
    /\ category' = category + 1
    /\ pc' = IF category = Len(CirebaUrls) THEN "track" ELSE "category"
    /\ UNCHANGED <<categories, existing_mls_numbers, tracked>>
    /\ UNCHANGED <<inVars, parsed, loadVars, partVars, hookVars, prepared, error,
                   convVars, normVars, save_args, saved, runVars, cleanVars, crawlVars,
                   dedupeVars, filterVars>>

\* main: "if all_new_mls_numbers: save_new_mls_numbers(all_new_mls_numbers)";
\* the insert into mls_listings is stored, or fails (False, or True when a
\* row-level security policy blocks it)
SaveNewMlsNumbers ==
    /\ pc = "track"
    /\ IF all_new_mls_numbers # <<>>
       THEN \/ tracked' = tracked \o SelectSeq(all_new_mls_numbers, Truthy)
            \/ UNCHANGED tracked
       ELSE UNCHANGED tracked
    /\ Goto("done")
    /\ UNCHANGED <<categories, category, existing_mls_numbers, all_new_mls_numbers,
                   save_results>>
    /\ UNCHANGED <<inVars, parsed, loadVars, partVars, hookVars, storeVars,
                   convVars, normVars, saveVars, runVars, cleanVars, crawlVars,
                   dedupeVars, filterVars>>

NextCireba ==
    \/ InitializeSupabase
    \/ ReadPage
    \/ CheckExisting
    \/ ProcessCategory
    \/ SaveNewMlsNumbers

\* a CIREBA run from phase 2 on
SpecCireba == InitCireba /\ [][NextCireba]_vars

\* ================================================================== claims
\* price_usd of the i-th candidate handed to process_listing
PriceOf(i) == CandidatePrice(variant, parsed[i].listing)

\* the i-th candidate passed the minimum-price filter
Retained(i) ==
    LET price == PriceOf(i)
    IN  ~price.raised /\ price.usd >= ThresholdUSD * Mills

\* the links of both output lists
NewLinks == {new_listings[i].link : i \in 1..Len(new_listings)}

DuplicateLinks == {duplicates_found[j].new_listing.link : j \in 1..Len(duplicates_found)}

\* the whole batch went through process_listing
BatchDone == loaded = "ok" /\ idx = Len(parsed) /\ error # "ValueError" /\ pc # "process"

\* C1: when the duplicate report cannot be delivered (the POST raises or
\* answers with a status other than 200), the filter still returns the rows
\* of the new listings and main still sends them to ecaytrade_listings.
C1_NotificationFailureKeepsPersistence ==
    (pc = "done" /\ error = "" /\ webhook \in {"status", "exception"}) =>
        /\ prepared = PreparedRows(new_listings)
        /\ prepared # <<>> =>
               store_calls = <<InsertRows(prepared, parsed[1].source_url)>>

\* C2: when the reference cache cannot be loaded (client initialisation
\* fails or a page read raises) no candidate is processed, no duplicate
\* report is sent, the filter returns (False, []) and main issues no insert.
C2_LoadFailureAborts ==
    loaded = "failed" =>
        /\ pc \in {"main_result", "done"}
        /\ idx = 0 /\ new_listings = <<>> /\ duplicates_found = <<>> /\ skipped = 0
        /\ webhook = "none" /\ delivered = <<>>
        /\ success = FALSE /\ prepared = <<>>
        /\ store_calls = <<>> /\ inserted = <<>>

C2_Witness ==
    /\ loaded = "failed" /\ pc = "done"
    /\ Len(reads) = 1 /\ Len(parsed) = MaxBatch
    /\ \E i \in 1..Len(parsed) : Retained(i)

\* a non-empty price string that is not a number once its commas are removed
Unparsable(l) ==
    /\ Truthy(l.price)
    /\ ParseFloat(RemoveCommas(l.price)) = ValueError
    /\ l.currency \in {"CI$", "US$"}

\* C3: a candidate with an unparsable price (currency CI$ or US$) never
\* aborts the batch: it is taken as price_usd = 0.0, dropped by the
\* threshold, and process_listing returns normally.
C3_UnparsablePriceNeverAborts ==
    \A i \in 1..idx :
        Unparsable(parsed[i].listing) =>
            /\ ~(i = idx /\ error = "ValueError")
            /\ ~PriceOf(i).raised /\ PriceOf(i).usd = 0

\* C4 as stated: after the batch, len(new_listings) + len(duplicates_found)
\* equals the number of candidates passed through process_listing.
C4_PartitionTotality ==
    BatchDone => Len(new_listings) + Len(duplicates_found) = Len(parsed)

\* C4, amended: at every point of the batch the two lists hold exactly the
\* processed candidates whose price_usd is at least 200,000; the candidates
\* under the threshold are in neither list.
C4_PartitionOfRetained ==
    Len(new_listings) + Len(duplicates_found) = Cardinality({i \in 1..idx : Retained(i)})

C4_Witness ==
    /\ BatchDone /\ skipped > 0
    /\ Len(new_listings) + Len(duplicates_found) > 0

\* C5 as stated: no link is both in new_listings and in duplicates_found,
\* whatever candidates were supplied.
C5_Disjoint == NewLinks \cap DuplicateLinks = {}

\* C5, amended: when no link is supplied more than once in the run, no link
\* is both in new_listings and in duplicates_found.
C5_DisjointForDistinctLinks ==
    (\A i, j \in 1..Len(parsed) :
         i # j => parsed[i].listing.link # parsed[j].listing.link)
    => \A i \in 1..Len(new_listings), j \in 1..Len(duplicates_found) :
           new_listings[i].link # duplicates_found[j].new_listing.link

C5_Witness ==
    /\ BatchDone /\ new_listings # <<>> /\ duplicates_found # <<>>
    /\ NewLinks \cap DuplicateLinks = {}

\* a cache entry whose price is within the tolerance of p (boundary
\* included) and whose name is similar enough to name
GatesCleared(p, name, ref) ==
    /\ p - ref.price_usd <= ToleranceUSD * Mills
    /\ ref.price_usd - p <= ToleranceUSD * Mills
    /\ fuzzy_name_match(name, ref.name) >= MatchThreshold

\* C6: a candidate is recorded as a duplicate iff some reference row is
\* within 100 USD of its price (inclusive) and has name similarity >= 85;
\* every recorded duplicate carries such a row with its score, and every
\* new listing has no such row in the cache.
C6_MatchInvariant ==
    /\ \A j \in 1..Len(duplicates_found) :
           LET d == duplicates_found[j]
               k == d.duplicate_match.existing_listing
               score == fuzzy_name_match(d.new_listing.name, cache[k].name)
           IN  /\ k \in 1..Len(cache)
               /\ d.new_listing.price_usd - cache[k].price_usd <= ToleranceUSD * Mills
               /\ cache[k].price_usd - d.new_listing.price_usd <= ToleranceUSD * Mills
               /\ score >= MatchThreshold
               /\ d.duplicate_match.similarity_score = score
    /\ \A i \in 1..Len(new_listings) :
           \A k \in 1..Len(cache) :
               ~GatesCleared(new_listings[i].price_usd, new_listings[i].name, cache[k])

\* a duplicate exactly on the tolerance boundary, and a new listing whose
\* name matches a reference row that is out of tolerance
C6_Witness ==
    /\ \E j \in 1..Len(duplicates_found) :
           LET d == duplicates_found[j]
           IN  Abs(d.new_listing.price_usd
                   - cache[d.duplicate_match.existing_listing].price_usd)
               = ToleranceUSD * Mills
    /\ \E i \in 1..Len(new_listings) :
           \E k \in 1..Len(cache) :
               /\ fuzzy_name_match(new_listings[i].name, cache[k].name) = 100
               /\ ~exact_price_match(new_listings[i].price_usd, cache[k].price_usd)

\* the entries of either list that come from a candidate with this link
\* and price
InLists(link, usd) ==
    \/ \E i \in 1..Len(new_listings) :
           new_listings[i].link = link /\ new_listings[i].price_usd = usd
    \/ \E j \in 1..Len(duplicates_found) :
           /\ duplicates_found[j].new_listing.link = link
           /\ duplicates_found[j].new_listing.price_usd = usd

\* C7: a processed candidate is in one of the two lists iff its price_usd
\* is at least 200,000 (200,000.00 retained, 199,999.99 dropped); every
\* entry of either list has price_usd >= 200,000.
C7_MinimumPrice ==
    /\ \A i \in 1..Len(new_listings) :
           new_listings[i].price_usd >= ThresholdUSD * Mills
    /\ \A j \in 1..Len(duplicates_found) :
           duplicates_found[j].new_listing.price_usd >= ThresholdUSD * Mills
    /\ \A i \in 1..idx :
           LET price == PriceOf(i)
           IN  ~price.raised =>
                   (InLists(parsed[i].listing.link, price.usd)
                        <=> price.usd >= ThresholdUSD * Mills)

C7_Witness ==
    /\ BatchDone
    /\ \E i \in 1..idx :
           /\ PriceOf(i).usd = ThresholdUSD * Mills
           /\ InLists(parsed[i].listing.link, PriceOf(i).usd)
    /\ \E i \in 1..idx :
           /\ PriceOf(i).usd = ThresholdUSD * Mills - 10
           /\ ~InLists(parsed[i].listing.link, PriceOf(i).usd)

\* C8: over an unchanging table of N rows the loader requests the ranges
\* starting at 0, P, 2P, ...; when it succeeds it has issued N div P + 1
\* reads and holds every row exactly once, in table order.
C8_Pagination ==
    /\ \A i \in 1..Len(reads) : reads[i] = (i - 1) * page_size
    /\ loaded = "ok" =>
           /\ Len(reads) = Len(table) \div page_size + 1
           /\ variant # "mlsnum" =>
                  /\ Len(cache) = Len(table)
                  /\ \A i \in 1..Len(table) : cache[i].id = table[i].id
           /\ variant = "mlsnum" =>
                  /\ all_mls_numbers = {table[i].number : i \in 1..Len(table)}
                  /\ Cardinality(all_mls_numbers) = Len(table)

C8_Witness ==
    /\ loaded = "ok" /\ Len(table) = 2500
    /\ reads = <<0, 1000, 2000>> /\ Len(cache) = 2500

Amount(s) == ParseFloat(RemoveCommas(s))

\* round(A * 50/41, 2) in mills: the whole number of cents nearest to the
\* product (a tie cannot occur: 10 * A = 41 * (2c + 1) has no solution)
RefConvertCI(A) ==
    LET q == A \div (10 * RateDen)
        r == A % (10 * RateDen)
        lo == (r * RateNum) \div (10 * RateDen)
        c == CHOOSE k \in {lo, lo + 1} :
                 2 * Abs(k * 10 * RateDen - r * RateNum) < 10 * RateDen
    IN  (q * RateNum + c) * 10

AmountOf(result) ==
    LET a == ParseFloat(RemoveCommas(result[2]))
    IN  IF Truthy(result[2]) /\ a # ValueError THEN a ELSE 0

ConvImpls == {"ecaytrade", "cireba", "century21"}

\* C11: for the same (price string, currency) argument the conversion of the
\* DuplicateDetector and the module-level conversions of ecaytrade.py,
\* cireba.py and century21.py all return, without raising, the same USD
\* amount, also for empty and unparsable price strings and for currencies
\* other than CI$.
C11_ConversionsAgree ==
    (pc = "conv_done" /\ DOMAIN conv_mod = ConvImpls) =>
        /\ ~conv_res.raised
        /\ \A impl \in ConvImpls : AmountOf(conv_mod[impl]) = conv_res.usd

\* C11, the part that holds: the three module-level conversions return the
\* same pair, and agree with the DuplicateDetector on the amount whenever the
\* currency is US$, or CI$ with a parsable or empty price string
C11_AgreeOnConvertible ==
    (pc = "conv_done" /\ DOMAIN conv_mod = ConvImpls) =>
        /\ \A i, j \in ConvImpls : conv_mod[i] = conv_mod[j]
        /\ (conv_arg[2] = "US$" \/ (conv_arg[2] = "CI$" /\ ~Unparsable([price |-> conv_arg[1], currency |-> "CI$"])))
               => /\ ~conv_res.raised
                  /\ \A impl \in ConvImpls : AmountOf(conv_mod[impl]) = conv_res.usd

\* the categories in priority order, each with its keywords
TypePriority ==
    << [type |-> TypeLand, keywords |-> {KwLand, KwLot, KwVacant}],
       [type |-> TypeCommercial, keywords |-> {KwCommercial}],
       [type |-> TypeMultiUnit, keywords |-> {KwMultiUnit, KwMultiUnitHyphen}],
       [type |-> TypeDuplex, keywords |-> {KwDuplex}],
       [type |-> TypeTriplex, keywords |-> {KwTriplex}],
       [type |-> TypeTownhouse, keywords |-> {KwTownhouse}],
       [type |-> TypeCondo, keywords |-> {KwCondo, KwCondominium, KwUnit}],
       [type |-> TypeApartment, keywords |-> {KwApartment}] >>

\* the first category of the priority order with a keyword in the
\* lower-cased, trimmed text, Home when there is none
FirstCategory(text) ==
    LET t == Strip(Lower(text))
        hits == {k \in 1..Len(TypePriority) :
                    \E kw \in TypePriority[k].keywords : Contains(t, kw)}
    IN  IF hits = {} THEN TypeHome
        ELSE TypePriority[CHOOSE k \in hits : \A h \in hits : k <= h].type

\* the type the first pass gave the raw listing
NormalizedType == norm_res[1].listing.listing_type

C13_NormalizationIdempotent ==
    pc = "norm_twice" =>
        /\ norm_res[2].outcome = "kept"
        /\ norm_res[2].listing.price_usd = norm_res[1].listing.price_usd
        /\ norm_res[2].listing.listing_type = norm_res[1].listing.listing_type

\* C13, the part that holds: the type is unchanged by a second pass, and so
\* is the price when it is a whole number of dollars or the filter is the
\* MLSListingDetector
C13_IdempotentOnTypeAndWholeDollars ==
    pc = "norm_twice" =>
        /\ norm_res[2].outcome = "kept"
        /\ norm_res[2].listing.listing_type = norm_res[1].listing.listing_type
        /\ (variant = "mls" \/ norm_res[1].listing.price_usd % Mills = 0)
               => norm_res[2].listing.price_usd = norm_res[1].listing.price_usd

HasMls(row) == "mls_number" \in DOMAIN row

\* C14: no row sent to or stored in ecaytrade_listings has an mls_number
\* field, and every row stored in cireba_listings has one, whether or not
\* the result it was prepared from carried the field.
C14_MlsNumberByTable ==
    /\ \A i \in 1..Len(inserted) : ~HasMls(inserted[i])
    /\ \A c \in 1..Len(store_calls) :
           \A i \in 1..Len(store_calls[c]) : ~HasMls(store_calls[c][i])
    /\ \A i \in 1..Len(cireba_rows) : HasMls(cireba_rows[i])

\* both tables were written from results of which one carries an MLS number
\* and one has no mls_number key
C14_Witness ==
    /\ inserted # <<>> /\ cireba_rows # <<>>
    /\ \E i \in 1..Len(save_args.results) :
           HasMls(save_args.results[i]) /\ save_args.results[i].mls_number # <<>>
    /\ \E i \in 1..Len(save_args.results) : ~HasMls(save_args.results[i])

\* get_new_listings_for_save was called
PreparerCalled ==
    /\ loaded = "ok" /\ idx = Len(parsed) /\ error # "ValueError"
    /\ pc \in {"main_result", "done", "failed"}

\* sqft, beds and baths are an integer or null, acres is a float or absent
WellTyped(row) ==
    /\ row.sqft.t \in {"int", "none"}
    /\ row.beds.t \in {"int", "none"}
    /\ row.baths.t \in {"int", "none"}
    /\ "acres" \in DOMAIN row => row.acres.t = "float"

OneRowPerListing ==
    /\ Len(prepared) = Len(new_listings)
    /\ \A i \in 1..Len(prepared) :
           /\ prepared[i].link = new_listings[i].link
           /\ prepared[i].name = new_listings[i].name
           /\ WellTyped(prepared[i])

\* C15: the preparer never raises; it emits one row per new listing, in
\* order, with sqft, beds and baths an integer or null and acres a float or
\* absent: a value that cannot be coerced nulls its own field only.
C15_CoercionRecoverable ==
    PreparerCalled => error = "" /\ OneRowPerListing

\* C15, the part that holds: the same, for the runs in which the preparer
\* did not raise
C15_RowsOfCompletedPreparation ==
    (PreparerCalled /\ error = "") => OneRowPerListing

\* C16: the reference cache is written once, by the loader; once the load
\* has succeeded no step of the run (process_listing, check_duplicate /
\* check_mls_match, send_batch_webhook, get_new_listings_for_save, the save)
\* changes it or reads the table again.
C16_CacheLoadedOnceThenFrozen ==
    [][/\ loaded = "ok" => (cache' = cache /\ reads' = reads /\ loaded' = "ok")
       /\ cache' # cache => (loaded = "pending" /\ cache = <<>> /\ loaded' = "ok")]_vars

\* a run that placed two candidates, one of them as new, against a loaded
\* cache of two rows and went on to its end
C16_Witness ==
    /\ pc = "done" /\ loaded = "ok" /\ Len(cache) = 2
    /\ idx = 2 /\ new_listings # <<>> /\ store_calls # <<>>
    /\ \A i \in 1..Len(cache) : cache[i].id = table[i].id

\* the processed listing comes from the i-th candidate
FromCandidate(processed, i) ==
    /\ processed.link = parsed[i].listing.link
    /\ processed.name = parsed[i].listing.name
    /\ processed.source_url = parsed[i].source_url

\* the processed listings of the sequence come, in order, from candidates
\* processed one after the other
InCandidateOrder(processedSeq) ==
    \E f \in [1..Len(processedSeq) -> 1..idx] :
        /\ \A k \in 1..Len(processedSeq) : FromCandidate(processedSeq[k], f[k])
        /\ \A j, k \in 1..Len(processedSeq) : j < k => f[j] < f[k]

DuplicateListings == [j \in 1..Len(duplicates_found) |-> duplicates_found[j].new_listing]

\* C17: new_listings and duplicates_found list their candidates in the order
\* in which the candidates were processed, and the prepared rows are in the
\* order of new_listings.
C17_OrderPreserved ==
    /\ InCandidateOrder(new_listings)
    /\ InCandidateOrder(DuplicateListings)
    /\ prepared # <<>> =>
           /\ Len(prepared) = Len(new_listings)
           /\ \A i \in 1..Len(prepared) :
                  /\ prepared[i].link = new_listings[i].link
                  /\ prepared[i].target_url = new_listings[i].source_url

\* two different candidates ended in new_listings and their rows were
\* prepared
C17_Witness ==
    /\ pc = "done" /\ Len(new_listings) = 2 /\ Len(prepared) = 2
    /\ new_listings[1].link # new_listings[2].link

\* C18: the match recorded for a duplicate is the first row, in cache
\* order, that clears both gates, even when a later row is more similar, and
\* the recorded similarity_score is that first row's score.
C18_FirstMatchInCacheOrder ==
    \A j \in 1..Len(duplicates_found) :
        LET d == duplicates_found[j]
            k == d.duplicate_match.existing_listing
        IN  /\ d.duplicate_match.similarity_score =
                   fuzzy_name_match(d.new_listing.name, cache[k].name)
            /\ d.duplicate_match.similarity_score >= MatchThreshold
            /\ d.new_listing.price_usd - cache[k].price_usd <= ToleranceUSD * Mills
            /\ cache[k].price_usd - d.new_listing.price_usd <= ToleranceUSD * Mills
            /\ \A h \in 1..(k - 1) :
                   ~GatesCleared(d.new_listing.price_usd, d.new_listing.name, cache[h])

\* a duplicate for which a later row of the cache also clears both gates
\* and is more similar than the row reported
C18_Witness ==
    \E j \in 1..Len(duplicates_found) :
        LET d == duplicates_found[j]
            k == d.duplicate_match.existing_listing
        IN  \E h \in (k + 1)..Len(cache) :
                /\ GatesCleared(d.new_listing.price_usd, d.new_listing.name, cache[h])
                /\ fuzzy_name_match(d.new_listing.name, cache[h].name)
                       > d.duplicate_match.similarity_score

\* the loader of one of the two filters built its cache
CacheBuilt == loaded = "ok" /\ variant \in {"dd", "mls"}

\* C19 as stated: every reference row's stored price is its price_usd in
\* the cache, unchanged, whatever the row's currency.
C19_ReferencePriceUnconverted ==
    CacheBuilt => \A i \in 1..Len(cache) : cache[i].price_usd = table[i].price

\* C19, amended: the MLSListingDetector uses the stored price unchanged
\* whatever the currency; the DuplicateDetector passes it through its
\* conversion with the row's currency: unchanged for US$, multiplied by the
\* rate and rounded to cents for CI$, 0.0 for any other currency.
C19_ReferencePriceByLoader ==
    CacheBuilt =>
        /\ Len(cache) = Len(table)
        /\ \A i \in 1..Len(cache) :
               cache[i].price_usd =
                   IF variant = "mls" \/ table[i].currency = "US$" THEN table[i].price
                   ELSE IF table[i].currency = "CI$" THEN RefConvertCI(table[i].price)
                   ELSE 0

\* both loaders' cases: a cache whose CI$ rows were converted, and a cache
\* built over rows of three currencies
C19_Witness ==
    /\ CacheBuilt /\ Len(cache) > page_size
    /\ \E i \in 1..Len(cache) :
           table[i].currency = "CI$" /\ cache[i].price_usd # table[i].price

\* ---------------------------------------------------------------- C21
ListedNames == <<"cireba.py", "ecaytrade.py", "cleanup_logs.py", "cleanup_database.py">>

\* the events that end the attempt to run a script
EndEvents == {"missing", "error", "exit 0", "exit nonzero", "timeout"}

\* the scripts whose attempt has ended, in order
Ended == SelectSeq(events, LAMBDA e : e.what \in EndEvents)

NamesOf(scripts) == [i \in 1..Len(scripts) |-> scripts[i].name]

\* a script is started only when every earlier attempt has ended, and the
\* event after its start is its own end
OneAtATime ==
    \A i \in 1..Len(events) :
        events[i].what = "started" =>
            /\ i > 1 => events[i - 1].what \in EndEvents
            /\ i < Len(events) =>
                   /\ events[i + 1].script = events[i].script
                   /\ events[i + 1].what \in {"exit 0", "exit nonzero", "timeout"}
            /\ i = Len(events) => child = events[i].script.name

\* the i-th result is True exactly for a script that exited with code 0
ResultsRecorded ==
    /\ Len(run_results) = Len(Ended)
    /\ \A i \in 1..Len(Ended) : run_results[i] <=> Ended[i].what = "exit 0"

\* at the exit every script of the list was attempted, in the listed order,
\* and the exit code is 0 exactly when every one exited with code 0
ExitsAfterAll(names) ==
    exit_code # "" =>
        /\ NamesOf([i \in 1..Len(Ended) |-> Ended[i].script]) = names
        /\ exit_code = "0" <=> \A i \in 1..Len(Ended) : Ended[i].what = "exit 0"

\* C21 as stated: the launcher runs cireba.py, ecaytrade.py, cleanup_logs.py
\* and cleanup_database.py one after another, records a missing, failed or
\* timed-out script as failed and goes on, and exits 0 iff all succeeded.
C21_FourScriptsInOrder ==
    /\ OneAtATime
    /\ ResultsRecorded
    /\ ExitsAfterAll(ListedNames)

\* C21: each launcher runs the scripts of its own scrapers list one after
\* another in the listed order (run_all.py the four scripts,
\* run_all_ubuntu.py cireba.py, ecaytrade.py and cleanup_database.py only),
\* records a missing, failed or timed-out script as failed and goes on to
\* the next, and exits 0 exactly when every script exited with code 0.
C21_OwnListInOrder ==
    /\ OneAtATime
    /\ ResultsRecorded
    /\ ExitsAfterAll(NamesOf(Scrapers(launcher)))

\* run_all_ubuntu.py has exited after a missing, a timed-out and a
\* successful script
C21_Witness ==
    /\ launcher = "run_all_ubuntu.py"
    /\ exit_code = "1"
    /\ \E i, j, k \in 1..Len(Ended) :
           /\ i < k /\ j < k
           /\ Ended[i].what = "missing"
           /\ Ended[j].what = "timeout"
           /\ Ended[k].what = "exit 0"

\* ---------------------------------------------------------------- C22
\* C22: whenever cleanup_old_listings returns (n, True), no row older than
\* the cutoff remains in the table, n rows were deleted and no row at or
\* after the cutoff was deleted.
C22_ReturnsCleanTable ==
    (clean_ret # <<>> /\ clean_ret[2]) =>
        /\ old_rows = {}
        /\ clean_ret[1] = Cardinality(removed)
        /\ removed \cap recent_rows = {}

\* C22, termination: a round of the loop that goes on to another round has
\* removed at least one old row (so the rounds cannot repeat for ever).
C22_RoundMakesProgress ==
    [][(clean_pc = "delete" /\ clean_pc' = "select") => old_rows' # old_rows]_vars

\* ---------------------------------------------------------------- C23
\* a saved page on which the crawl is to stop: it failed, or it has no
\* listings (EcayTrade) / fewer than 100 characters of content (CIREBA)
FailedOrEmpty(file) ==
    \/ ~file.result.success
    \/ site = "ecaytrade.py" /\ file.result.listings = 0
    \/ site = "cireba.py" /\ file.result.markdown_length < MinMarkdownLength

\* C23: crawl_category_pages requests the pages 1, 2, 3, ... in increasing
\* order without gaps, has saved the raw result of every requested page
\* before it decides whether to continue, stops at the first page that
\* failed or is empty, and returns the number of pages requested before it.
C23_PagesInOrderSavedThenDecided ==
    /\ \A i \in 1..Len(requested) : requested[i] = i
    /\ Len(saved_files) = (IF crawl_pc = "save" THEN Len(requested) - 1 ELSE Len(requested))
    /\ \A i \in 1..Len(saved_files) : saved_files[i].page_number = requested[i]
    /\ crawl_pc = "save" => saved_files = <<>> \/ ~FailedOrEmpty(saved_files[Len(saved_files)])
    /\ crawl_pc = "request" => \A i \in 1..Len(saved_files) : ~FailedOrEmpty(saved_files[i])
    /\ crawl_pc \in {"decide", "done"} =>
           \A i \in 1..(Len(saved_files) - 1) : ~FailedOrEmpty(saved_files[i])
    /\ crawl_pc = "done" =>
           /\ FailedOrEmpty(saved_files[Len(saved_files)])
           /\ crawl_ret = <<Len(requested) - 1>>

\* the CIREBA crawl returned 2 after a third page with 99 characters
C23_Witness ==
    /\ site = "cireba.py"
    /\ crawl_ret = <<2>>
    /\ Len(saved_files) = 3
    /\ saved_files[3].result.success
    /\ saved_files[3].result.markdown_length = MinMarkdownLength - 1

\* ---------------------------------------------------------------- C24
PairwiseDistinctLinks(out) ==
    \A i, j \in 1..Len(out) : i # j => LinkKey(out[i]) # LinkKey(out[j])

\* the elements of q at the positions S, in the order of q
RECURSIVE Pick(_, _)
Pick(q, S) ==
    IF q = <<>> THEN <<>>
    ELSE LET rest == Pick(Tail(q), {i - 1 : i \in S \ {1}})
         IN  IF 1 \in S THEN <<Head(q)>> \o rest ELSE rest

IsSubList(out, in) == \E S \in SUBSET (1..Len(in)) : out = Pick(in, S)

HasLink(item) == "link" \in DOMAIN item /\ item.link # ""

\* position i holds the first occurrence of a non-empty link
FirstOfLink(in, i) ==
    HasLink(in[i]) /\ \A k \in 1..(i - 1) : LinkKey(in[k]) # LinkKey(in[i])

\* of every non-empty link of the input the output holds one listing, the
\* one at the link's first position
KeepsFirstOccurrences(out, in) ==
    \A i \in 1..Len(in) :
        FirstOfLink(in, i) =>
            /\ Cardinality({j \in 1..Len(out) : LinkKey(out[j]) = LinkKey(in[i])}) = 1
            /\ \E j \in 1..Len(out) : out[j] = in[i]

\* C24: the output of deduplicate_listings and of dedupe_listings_by_url has
\* pairwise distinct links, is an order-preserving sub-list of the input,
\* holds of every distinct non-empty link exactly the first occurrence, and
\* applying the function to its output gives the output again.
C24_FirstOccurrenceKept ==
    \A f \in DOMAIN dedupe_res :
        LET out == dedupe_res[f].once
        IN  /\ PairwiseDistinctLinks(out)
            /\ IsSubList(out, dedupe_arg)
            /\ KeepsFirstOccurrences(out, dedupe_arg)
            /\ dedupe_res[f].twice = out

\* both functions were given a list in which a link occurs on two different
\* listings, next to a listing without a link
C24_Witness ==
    /\ DOMAIN dedupe_res = {"deduplicate_listings", "dedupe_listings_by_url"}
    /\ \E i, j, k \in 1..Len(dedupe_arg) :
           /\ i < j
           /\ HasLink(dedupe_arg[i]) /\ HasLink(dedupe_arg[j])
           /\ dedupe_arg[i].link = dedupe_arg[j].link
           /\ dedupe_arg[i] # dedupe_arg[j]
           /\ ~HasLink(dedupe_arg[k])
    /\ Len(dedupe_res["deduplicate_listings"].once) = 2
    /\ Len(dedupe_res["dedupe_listings_by_url"].once) = 1

\* ---------------------------------------------------------------- C25
\* the listing carries a non-empty MLS number
HasMlsNumber(listing) ==
    "mls_number" \in DOMAIN listing /\ listing.mls_number # <<>>

AlreadyTracked(listing, existing) ==
    HasMlsNumber(listing) /\ listing.mls_number \in existing

\* C25: filter_new_listings returns, in input order, exactly the listings
\* whose mls_number is missing, empty or not in the existing set; none with
\* a non-empty number of the set is returned, and kept + skipped is the
\* length of the input.
C25_ExactlyTheUntracked ==
    filter_res # <<>> =>
        LET in == filter_arg.listings
            out == filter_res.new_listings
        IN  /\ out = Pick(in, {i \in 1..Len(in) : ~AlreadyTracked(in[i], filter_arg.existing)})
            /\ \A j \in 1..Len(out) : ~AlreadyTracked(out[j], filter_arg.existing)
            /\ Len(out) + filter_res.skipped_count = Len(in)

\* a tracked listing was skipped between two kept ones, one of them with
\* an empty number while the set holds the empty string
C25_Witness ==
    /\ filter_res # <<>>
    /\ <<>> \in filter_arg.existing
    /\ Len(filter_arg.listings) = 3
    /\ AlreadyTracked(filter_arg.listings[2], filter_arg.existing)
    /\ "mls_number" \in DOMAIN filter_arg.listings[1]
    /\ filter_arg.listings[1].mls_number = <<>>
    /\ filter_res.new_listings = <<filter_arg.listings[1], filter_arg.listings[3]>>
    /\ filter_res.skipped_count = 1

\* ---------------------------------------------------------------- C26
\* the MLS numbers of the rows this run stored in cireba_listings
StoredNumbers == {cireba_rows[j].mls_number : j \in 1..Len(cireba_rows)}

\* C26: an MLS number is written to mls_listings only if the insert of its
\* listing into cireba_listings succeeded in the run; no number is tracked
\* whose listing was never stored.
C26_TrackedOnlyIfStored ==
    \A i \in 1..Len(tracked) : tracked[i] \in StoredNumbers

\* ---------------------------------------------------------------- C27
\* the numbers recorded in mls_listings when the run began
RecordedNumbers == {table[i].number : i \in 1..Len(table)}

AlreadyRecorded(row) ==
    row.mls_number # <<>> /\ DigitsToNat(row.mls_number) \in RecordedNumbers

\* C27: a listing whose MLS number is already recorded in mls_listings is
\* never inserted into cireba_listings again, also when the paginated read
\* of the existing numbers fails on some page.
C27_RecordedNeverReinserted ==
    \A j \in 1..Len(cireba_rows) : ~AlreadyRecorded(cireba_rows[j])

\* C27, when the read succeeds: no listing with a recorded number is
\* inserted by a run whose read of mls_listings returned every page.
C27_NoReinsertAfterCompleteRead ==
    loaded = "ok" => \A j \in 1..Len(cireba_rows) : ~AlreadyRecorded(cireba_rows[j])

\* ---------------------------------------------------------------- C28
\* the i-th candidate reached the match engine and no row of the reference
\* table clears both gates for it
NoReferenceMatch(i) ==
    /\ Retained(i)
    /\ \A k \in 1..Len(table) :
           ~GatesCleared(PriceOf(i).usd, parsed[i].listing.name,
                         CacheEntry(variant, table[k]))

\* two candidates with the same name and price under different links
Twins(i, j) ==
    /\ parsed[i].listing.name = parsed[j].listing.name
    /\ ~PriceOf(i).raised /\ ~PriceOf(j).raised
    /\ PriceOf(i).usd = PriceOf(j).usd
    /\ parsed[i].listing.link # parsed[j].listing.link

\* C28: a candidate is compared with the reference cache only, never with
\* the candidates processed before it: of two processed candidates with the
\* same name and price and different links that reached the match engine
\* and match no reference row, both are in new_listings.
C28_TwinsBothNew ==
    \A i, j \in 1..idx :
        (i < j /\ Twins(i, j) /\ NoReferenceMatch(i) /\ NoReferenceMatch(j)) =>
            {parsed[i].listing.link, parsed[j].listing.link} \subseteq NewLinks

\* both twins were processed against a cache of two rows and are new
C28_Witness ==
    /\ idx = 2 /\ Len(table) = 2 /\ Len(cache) = 2
    /\ Twins(1, 2) /\ NoReferenceMatch(1) /\ NoReferenceMatch(2)
    /\ Len(new_listings) = 2
    /\ new_listings[1].name = new_listings[2].name
    /\ new_listings[1].price_usd = new_listings[2].price_usd

\* ---------------------------------------------------------------- C29
\* the source URLs under which a link was supplied to the filter
SourceUrlsOf(link) ==
    {parsed[i].source_url : i \in {k \in 1..Len(parsed) : parsed[k].listing.link = link}}

\* C29: every row inserted into ecaytrade_listings carries as target_url
\* the source URL under which its listing was supplied to the filter, also
\* when the batch holds listings of more than one source URL.
C29_TargetUrlIsSourceUrl ==
    \A r \in 1..Len(inserted) : inserted[r].target_url \in SourceUrlsOf(inserted[r].link)

\* C29, one source URL: when every listing of the batch was supplied under
\* the same URL, every inserted row carries that URL.
C29_SingleSourceUrl ==
    (\A i \in 1..Len(parsed) : parsed[i].source_url = parsed[1].source_url) =>
        \A r \in 1..Len(inserted) : inserted[r].target_url \in SourceUrlsOf(inserted[r].link)

====
